---- MODULE Spec2Model ----
(***************************************************************************)
(* Web Guide browser extension: the popup's command orchestrator and       *)
(* speech output (popup.js), the content script's overlay controller       *)
(* (content.js, VisualGuide) and the pure reply-interpretation and         *)
(* element-resolution functions, as state machines.                        *)
(*                                                                         *)
(* A JavaScript string is a sequence of one-character strings; a selector  *)
(* produced by the page extractor is a sequence holding one opaque token   *)
(* ("#e1"), and the four reply tags are one token each ("[CLARIFY]").      *)
(* null and the empty string, both falsy and read only under || and !,     *)
(* are the empty sequence where the source treats them alike.              *)
(***************************************************************************)
EXTENDS Integers, Sequences, FiniteSets, TLC

VARIABLES
    state,      \* popup.js: the state object
    elements,   \* popup.js: the DOM elements the popup writes (stop button, status, response)
    config,     \* the frozen CONFIG flags the popup reads
    calls,      \* the invocations of processCommand, each with the point it is suspended at
    speech,     \* the pending continuations of speech requests
    hist,       \* history: what the running command displayed, spoke and sent; ids issued
    guide,      \* content.js: the VisualGuide object
    dom,        \* the overlay nodes in the document
    timers,     \* the timers set and not yet run, oldest first, with the ticks left
    listeners,  \* the dismiss handlers listening for clicks; whether the viewport handler listens
    made,       \* the nodes created so far (the next node's id is one more)
    frames,     \* the animation frames requested and neither run nor cancelled
    olog,       \* history: the overlay's last operation and what it met
    attached,   \* the page elements that are in the document
    shows,      \* the calls of highlightElement so far
    rIn,        \* the resolution stage's inputs (block outcome, instruction, snapshot, text)
    rOut,       \* the resolution stage's results
    doc,        \* content.js: the document, or the rectangle, one of its functions reads
    scan,       \* that function's position in its loop and what it returned
    voice,      \* popup.js: the voice transcript debounce (its state fields, its timers)
    background  \* the service worker: chrome.storage.local and the handlers in flight

resolveVars == <<rIn, rOut>>

extractVars == <<doc, scan>>

voiceVars == <<voice>>

backgroundVars == <<background>>

popupVars == <<state, elements, config, calls, speech, hist>>

overlayVars == <<guide, dom, timers, listeners, made, frames, olog, attached, shows>>

vars == <<state, elements, config, calls, speech, hist, guide, dom, timers, listeners, made,
          frames, olog, attached, shows, rIn, rOut, doc, scan, voice, background>>

-----------------------------------------------------------------------------
(* Bounds of the model *)

\* longest interactiveElements list of an enumerated snapshot
MaxElems == 2

-----------------------------------------------------------------------------
(* String primitives of the JavaScript runtime *)

\* \s of a regular expression and the white space String.prototype.trim removes
IsSpace(c) == c \in {" ", "\n", "\t"}

UpperChars ==
    << "A", "B", "C", "D", "E", "F", "G", "H", "I", "J", "K", "L", "M",
       "N", "O", "P", "Q", "R", "S", "T", "U", "V", "W", "X", "Y", "Z" >>

LowerChars ==
    << "a", "b", "c", "d", "e", "f", "g", "h", "i", "j", "k", "l", "m",
       "n", "o", "p", "q", "r", "s", "t", "u", "v", "w", "x", "y", "z" >>

LowerOf(c) ==
    IF \E i \in 1..26 : UpperChars[i] = c
    THEN LowerChars[CHOOSE i \in 1..26 : UpperChars[i] = c]
    ELSE c

UpperOf(c) ==
    IF \E i \in 1..26 : LowerChars[i] = c
    THEN UpperChars[CHOOSE i \in 1..26 : LowerChars[i] = c]
    ELSE c

\* String.prototype.toLowerCase
ToLowerCase(s) == [i \in 1..Len(s) |-> LowerOf(s[i])]

\* String.prototype.trim
Trim(s) ==
    IF \A i \in 1..Len(s) : IsSpace(s[i])
    THEN <<>>
    ELSE LET first == CHOOSE i \in 1..Len(s) :
                          ~IsSpace(s[i]) /\ \A j \in 1..(i - 1) : IsSpace(s[j])
             last  == CHOOSE i \in 1..Len(s) :
                          ~IsSpace(s[i]) /\ \A j \in (i + 1)..Len(s) : IsSpace(s[j])
         IN  SubSeq(s, first, last)

\* String.prototype.includes
Includes(hay, needle) ==
    \E i \in 0..(Len(hay) - Len(needle)) : SubSeq(hay, i + 1, i + Len(needle)) = needle

\* s.split(/\s+/).filter(Boolean): the maximal runs of non-space characters
RECURSIVE SplitWords(_, _, _)
SplitWords(s, i, cur) ==
    IF i > Len(s)
    THEN IF cur = <<>> THEN <<>> ELSE <<cur>>
    ELSE IF IsSpace(s[i])
         THEN (IF cur = <<>> THEN <<>> ELSE <<cur>>) \o SplitWords(s, i + 1, <<>>)
         ELSE SplitWords(s, i + 1, Append(cur, s[i]))

Words(s) == SplitWords(s, 1, <<>>)

-----------------------------------------------------------------------------
(* JavaScript values as JSON.parse produces them *)

JSUndefined == [t |-> "undefined", n |-> 0, frac |-> FALSE, s |-> <<>>, b |-> FALSE]
JSNull      == [t |-> "null",      n |-> 0, frac |-> FALSE, s |-> <<>>, b |-> FALSE]
JSInt(k)    == [t |-> "number",    n |-> k, frac |-> FALSE, s |-> <<>>, b |-> FALSE]
\* the number k + 0.5
JSHalf(k)   == [t |-> "number",    n |-> k, frac |-> TRUE,  s |-> <<>>, b |-> FALSE]
JSStr(str)  == [t |-> "string",    n |-> 0, frac |-> FALSE, s |-> str,  b |-> FALSE]
JSBool(v)   == [t |-> "boolean",   n |-> 0, frac |-> FALSE, s |-> <<>>, b |-> v]

Digits == << "0", "1", "2", "3", "4", "5", "6", "7", "8", "9" >>

IsDigit(c) == \E i \in 1..10 : Digits[i] = c

DigitValue(c) == (CHOOSE i \in 1..10 : Digits[i] = c) - 1

RECURSIVE DecimalValue(_)
DecimalValue(s) ==
    IF s = <<>> THEN 0
    ELSE 10 * DecimalValue(SubSeq(s, 1, Len(s) - 1)) + DigitValue(s[Len(s)])

NaN == [nan |-> TRUE, n |-> 0, frac |-> FALSE]

\* Number(v): undefined -> NaN, null -> 0, booleans -> 0/1, a string is trimmed and
\* read as a decimal literal ("" -> 0, anything that is no numeral -> NaN)
ToNumber(v) ==
    CASE v.t = "undefined" -> NaN
      [] v.t = "null"      -> [nan |-> FALSE, n |-> 0, frac |-> FALSE]
      [] v.t = "boolean"   -> [nan |-> FALSE, n |-> IF v.b THEN 1 ELSE 0, frac |-> FALSE]
      [] v.t = "number"    -> [nan |-> FALSE, n |-> v.n, frac |-> v.frac]
      [] v.t = "string"    ->
            LET str == Trim(v.s)
            IN  IF \A i \in 1..Len(str) : IsDigit(str[i])
                THEN [nan |-> FALSE, n |-> DecimalValue(str), frac |-> FALSE]
                ELSE NaN

\* Number.isInteger
IsInteger(x) == ~x.nan /\ ~x.frac

-----------------------------------------------------------------------------
(* Literal messages of the popup *)

\* resolveHighlightTarget: the description of last resort (lines 1123, 1132)
MsgRecommendedAction ==
    << "R", "e", "c", "o", "m", "m", "e", "n", "d", "e", "d", " ", "a", "c", "t", "i", "o",
       "n" >>

\* resolveFallbackHighlightTarget: the description of last resort (line 1193)
MsgStartHere ==
    << "S", "t", "a", "r", "t", " ", "h", "e", "r", "e" >>

\* formatActionStepResponse: the generic instruction (lines 1145, 1160)
MsgFallbackStep ==
    << "C", "l", "i", "c", "k", " ", "t", "h", "e", " ", "r", "e", "c", "o", "m", "m", "e",
       "n", "d", "e", "d", " ", "o", "p", "t", "i", "o", "n", " ", "t", "o", " ", "c", "o",
       "n", "t", "i", "n", "u", "e", "." >>

\* handleGeminiResponse: shown for an empty display text (line 1213)
MsgNoFormat ==
    << "I", " ", "f", "o", "u", "n", "d", " ", "a", " ", "r", "e", "c", "o", "m", "m", "e",
       "n", "d", "a", "t", "i", "o", "n", ",", " ", "b", "u", "t", " ", "c", "o", "u", "l",
       "d", " ", "n", "o", "t", " ", "f", "o", "r", "m", "a", "t", " ", "i", "t", " ", "c",
       "l", "e", "a", "r", "l", "y", "." >>

\* handleGeminiResponse: shown for a blank clarification (line 1200)
MsgDefaultClarify ==
    << "C", "o", "u", "l", "d", " ", "y", "o", "u", " ", "c", "l", "a", "r", "i", "f", "y",
       " ", "w", "h", "a", "t", " ", "y", "o", "u", " ", "w", "a", "n", "t", " ", "t", "o",
       " ", "d", "o", " ", "o", "n", " ", "t", "h", "i", "s", " ", "p", "a", "g", "e", "?" >>

\* handleGeminiResponse: the re-prompt (line 1243)
MsgReprompt ==
    << "I", " ", "c", "o", "u", "l", "d", " ", "n", "o", "t", " ", "m", "a", "t", "c", "h",
       " ", "t", "h", "a", "t", " ", "t", "o", " ", "a", "n", "y", "t", "h", "i", "n", "g",
       " ", "o", "n", " ", "t", "h", "i", "s", " ", "p", "a", "g", "e", ".", " ", "W", "h",
       "a", "t", " ", "d", "i", "d", " ", "y", "o", "u", " ", "m", "e", "a", "n", ",", " ",
       "o", "r", " ", "w", "h", "a", "t", " ", "s", "h", "o", "u", "l", "d", " ", "I", " ",
       "l", "o", "o", "k", " ", "f", "o", "r", "?" >>

\* processCommand: the apology's prefix (line 874)
MsgErrorPrefix ==
    << "S", "o", "r", "r", "y", ",", " ", "I", " ", "e", "n", "c", "o", "u", "n", "t", "e",
       "r", "e", "d", " ", "a", "n", " ", "e", "r", "r", "o", "r", ":", " " >>

\* processCommand: the error thrown for a null snapshot (line 855)
MsgNoPage ==
    << "C", "o", "u", "l", "d", " ", "n", "o", "t", " ", "a", "c", "c", "e", "s", "s", " ",
       "p", "a", "g", "e", " ", "c", "o", "n", "t", "e", "n", "t", ".", " ", "P", "l", "e",
       "a", "s", "e", " ", "r", "e", "f", "r", "e", "s", "h", " ", "t", "h", "e", " ", "p",
       "a", "g", "e", " ", "a", "n", "d", " ", "t", "r", "y", " ", "a", "g", "a", "i", "n",
       "." >>

\* getPageContent: the restricted-page text (line 901)
MsgRestricted ==
    << "C", "a", "n", "n", "o", "t", " ", "a", "n", "a", "l", "y", "z", "e", " ", "b", "r",
       "o", "w", "s", "e", "r", " ", "i", "n", "t", "e", "r", "n", "a", "l", " ", "p", "a",
       "g", "e", "s", ".", " ", "P", "l", "e", "a", "s", "e", " ", "n", "a", "v", "i", "g",
       "a", "t", "e", " ", "t", "o", " ", "a", " ", "r", "e", "g", "u", "l", "a", "r", " ",
       "w", "e", "b", "p", "a", "g", "e", "." >>

\* callGeminiAPI: the error for a body without text (line 1103)
MsgInvalidModel ==
    << "I", "n", "v", "a", "l", "i", "d", " ", "r", "e", "s", "p", "o", "n", "s", "e", " ",
       "f", "r", "o", "m", " ", "G", "e", "m", "i", "n", "i", " ", "A", "P", "I" >>

\* processCommand: the text shown while a command runs (line 848)
MsgProcessing ==
    << "<", "s", "p", "a", "n", " ", "c", "l", "a", "s", "s", "=", "\"", "l", "o", "a", "d",
       "i", "n", "g", "\"", ">", "<", "/", "s", "p", "a", "n", ">", " ", "P", "r", "o", "c",
       "e", "s", "s", "i", "n", "g", " ", "y", "o", "u", "r", " ", "r", "e", "q", "u", "e",
       "s", "t", ".", ".", "." >>

-----------------------------------------------------------------------------
(* Element resolution (popup.js) *)

\* no Resolved Target: the null a resolver returns
NoTarget == [isNull |-> TRUE, selector |-> <<>>, description |-> <<>>]

Target(sel, desc) == [isNull |-> FALSE, selector |-> sel, description |-> desc]

\* a || b on strings
OrElse(a, b) == IF a # <<>> THEN a ELSE b

\* a plausible slip: the label is preferred to the visible text
DerivedDescription_LabelFirst(recommendedElement) ==
    OrElse(recommendedElement.ariaLabel,
           OrElse(recommendedElement.text, MsgRecommendedAction))

\* recommendedElement.text || recommendedElement.ariaLabel || 'Recommended action'
DerivedDescription(recommendedElement) ==
    OrElse(recommendedElement.text,
           OrElse(recommendedElement.ariaLabel, MsgRecommendedAction))

resolveHighlightTarget(highlightData, pageData) ==
    LET interactiveElements == pageData.interactiveElements
        parsedIndex == ToNumber(highlightData.elementIndex)
        description0 ==
            IF highlightData.description.t = "string"
            THEN Trim(highlightData.description.s)
            ELSE <<>>
        inRange ==
            /\ IsInteger(parsedIndex)
            /\ parsedIndex.n >= 0
            /\ parsedIndex.n < Len(interactiveElements)
        recommendedElement == interactiveElements[parsedIndex.n + 1]
        selector1 == IF inRange THEN recommendedElement.selector ELSE <<>>
        description1 ==
            IF inRange /\ description0 = <<>>
            THEN DerivedDescription(recommendedElement)
            ELSE description0
        selector2 ==
            IF /\ selector1 = <<>>
               /\ highlightData.selector.t = "string"
               /\ Trim(highlightData.selector.s) # <<>>
            THEN Trim(highlightData.selector.s)
            ELSE selector1
    IN  IF selector2 = <<>>
        THEN NoTarget
        ELSE Target(selector2, OrElse(description1, MsgRecommendedAction))

\* score of a full containment and of one contained token; the score to beat at the start
FullMatchScore == 50
TokenMatchScore == 4
InitialBestScore == -1

\* `${element.text || ''} ${element.ariaLabel || ''}`.toLowerCase().trim()
CombinedLabel(element) ==
    Trim(ToLowerCase(element.text \o <<" ">> \o element.ariaLabel))

RECURSIVE CountContained(_, _)
CountContained(tokens, lowerText) ==
    IF tokens = <<>> THEN 0
    ELSE (IF Includes(lowerText, Head(tokens)) THEN 1 ELSE 0)
         + CountContained(Tail(tokens), lowerText)

FallbackScore(element, lowerText) ==
    LET combined == CombinedLabel(element)
    IN  (IF Includes(lowerText, combined) THEN FullMatchScore ELSE 0)
        + TokenMatchScore * CountContained(Words(combined), lowerText)

\* the for-loop of resolveFallbackHighlightTarget: the index of bestElement
RECURSIVE FallbackScan(_, _, _, _, _)
FallbackScan(interactiveElements, lowerText, i, bestIndex, bestScore) ==
    IF i > Len(interactiveElements)
    THEN bestIndex
    ELSE LET element == interactiveElements[i]
             score == FallbackScore(element, lowerText)
         IN  IF CombinedLabel(element) = <<>>
             THEN FallbackScan(interactiveElements, lowerText, i + 1, bestIndex, bestScore)
             ELSE IF score > bestScore
                  THEN FallbackScan(interactiveElements, lowerText, i + 1, i, score)
                  ELSE FallbackScan(interactiveElements, lowerText, i + 1,
                                    bestIndex, bestScore)

\* a plausible slip: the chosen element is tested for its text, not for its selector
resolveFallbackHighlightTarget_NeedsText(pageData, responseText) ==
    LET interactiveElements == pageData.interactiveElements
        lowerText == ToLowerCase(responseText)
        bestElement ==
            interactiveElements[FallbackScan(interactiveElements, lowerText, 1, 1,
                                             InitialBestScore)]
    IN  IF interactiveElements = <<>>
        THEN NoTarget
        ELSE IF bestElement.text = <<>>
             THEN NoTarget
             ELSE Target(bestElement.selector,
                         OrElse(bestElement.text, OrElse(bestElement.ariaLabel, MsgStartHere)))

resolveFallbackHighlightTarget(pageData, responseText) ==
    LET interactiveElements == pageData.interactiveElements
        lowerText == ToLowerCase(responseText)
        bestElement ==
            interactiveElements[FallbackScan(interactiveElements, lowerText, 1, 1,
                                             InitialBestScore)]
    IN  IF interactiveElements = <<>>
        THEN NoTarget
        ELSE IF bestElement.selector = <<>>
             THEN NoTarget
             ELSE Target(bestElement.selector,
                         OrElse(bestElement.text, OrElse(bestElement.ariaLabel, MsgStartHere)))

\* a plausible slip: the fallback resolver is reached only after a payload that parsed
ResolveStage_NoFallback(block, highlightData, pageData, responseToDisplay) ==
    LET primary ==
            IF block = "ok" THEN resolveHighlightTarget(highlightData, pageData)
            ELSE NoTarget
        fallback == resolveFallbackHighlightTarget(pageData, responseToDisplay)
        reached == block = "ok" /\ primary.isNull
    IN  [ primaryCalled  |-> block = "ok",
          primary        |-> primary,
          fallbackCalled |-> reached,
          target         |-> IF reached THEN fallback ELSE primary ]

\* handleGeminiResponse, lines 1221-1233: block is "none" (no highlight block matched),
\* "bad" (JSON.parse threw) or "ok" (highlightData is the parsed payload)
ResolveStage(block, highlightData, pageData, responseToDisplay) ==
    LET primary ==
            IF block = "ok" THEN resolveHighlightTarget(highlightData, pageData)
            ELSE NoTarget
        fallback == resolveFallbackHighlightTarget(pageData, responseToDisplay)
    IN  [ primaryCalled  |-> block = "ok",
          primary        |-> primary,
          fallbackCalled |-> primary.isNull,
          target         |-> IF primary.isNull THEN fallback ELSE primary ]

-----------------------------------------------------------------------------
(* Inputs of the resolution stage *)

SelectorTokens == << "#e1", "#e2", "#e3", "#e4", "#e5", "#e6" >>

\* the selector generateSelector gave the i-th interactive element (never empty)
SelectorOf(i) == << SelectorTokens[i] >>

ElementTexts == { <<>>, <<"a">>, <<"A", " ", "b">> }
ElementLabels == { <<>>, <<"b">> }

\* snapshots of at most MaxElems interactive elements, as getInteractiveElements builds them
Snapshots ==
    UNION { { [interactiveElements |->
                  [i \in 1..n |-> [text |-> tx[i], ariaLabel |-> al[i],
                                   selector |-> SelectorOf(i)]]] :
              tx \in [1..n -> ElementTexts], al \in [1..n -> ElementLabels] } :
            n \in 0..MaxElems }

IndexValues ==
    { JSUndefined, JSNull, JSInt(0), JSInt(1), JSInt(MaxElems), JSInt(-1), JSHalf(0),
      JSStr(<<>>), JSStr(<<"1">>), JSStr(<<"o">>), JSBool(TRUE), JSBool(FALSE) }

SelectorValues ==
    { JSUndefined, JSStr(<<>>), JSStr(<<" ">>), JSStr(<<"#x">>), JSStr(<<" ", "#x">>) }

DescriptionValues ==
    { JSUndefined, JSStr(<<>>), JSStr(<<" ">>), JSStr(<<"D">>), JSStr(<<"D", " ">>),
      JSInt(7) }

Instructions ==
    [elementIndex : IndexValues, selector : SelectorValues, description : DescriptionValues]

NoInstruction ==
    [elementIndex |-> JSUndefined, selector |-> JSUndefined, description |-> JSUndefined]

DisplayTexts == { <<"a">>, <<"B">>, <<"c">>, <<"A", " ", "b", ".">>, <<"a", " ", "c">> }

ResolveIdle ==
    [done |-> FALSE, primaryCalled |-> FALSE, primary |-> NoTarget,
     fallbackCalled |-> FALSE, target |-> NoTarget]


-----------------------------------------------------------------------------
(* Reply interpretation (popup.js): the tags, the highlight payload, the formatter *)

\* getIndexedInteractiveElements: slice(0, 20)
PromptCap == 20

\* the list buildPrompt embeds: the first PromptCap descriptors, each under its index
getIndexedInteractiveElements(pageData) ==
    LET listed == IF Len(pageData.interactiveElements) < PromptCap
                  THEN Len(pageData.interactiveElements) ELSE PromptCap
    IN  [i \in 1..listed |-> [index     |-> i - 1,
                              text      |-> pageData.interactiveElements[i].text,
                              ariaLabel |-> pageData.interactiveElements[i].ariaLabel]]

\* most interactive elements in a snapshot of the prompt specification
MaxSnapshot == 22

\* a snapshot of n interactive elements, the i-th with the selector #e<i>
LongSnapshot(n) ==
    [interactiveElements |->
        [i \in 1..n |-> [text      |-> <<"a">>,
                         ariaLabel |-> <<>>,
                         selector  |-> <<"#e", Digits[(i \div 10) + 1], Digits[(i % 10) + 1]>>]]]

\* element indexes around both limits: the prompt's and the snapshot's
PromptIndexValues ==
    {JSInt(k) : k \in {-1, 0, 1} \cup ((PromptCap - 2)..MaxSnapshot)} \cup {JSUndefined}

PromptInstructions ==
    [elementIndex : PromptIndexValues, selector : SelectorValues,
     description : {JSUndefined, JSStr(<<"D">>)}]

ClarifyOpen    == "[CLARIFY]"
ClarifyClose   == "[/CLARIFY]"
HighlightOpen  == "[HIGHLIGHT_ELEMENT]"
HighlightClose == "[/HIGHLIGHT_ELEMENT]"

\* response.match(/open(.*?)close/s): the leftmost opening tag that a closing tag
\* follows, up to the first closing tag after it
HasBlock(s, open, close) ==
    \E i, j \in 1..Len(s) : i < j /\ s[i] = open /\ s[j] = close

BlockStart(s, open, close) ==
    CHOOSE i \in 1..Len(s) :
        /\ s[i] = open
        /\ \E j \in (i + 1)..Len(s) : s[j] = close
        /\ \A k \in 1..(i - 1) : ~(s[k] = open /\ \E j \in (k + 1)..Len(s) : s[j] = close)

BlockEnd(s, open, close) ==
    CHOOSE j \in (BlockStart(s, open, close) + 1)..Len(s) :
        /\ s[j] = close
        /\ \A k \in (BlockStart(s, open, close) + 1)..(j - 1) : s[k] # close

\* match[1]: the text between the two tags
BlockBody(s, open, close) ==
    SubSeq(s, BlockStart(s, open, close) + 1, BlockEnd(s, open, close) - 1)

\* response.replace(/open.*?close/s, ''): the first match only (no g flag)
RemoveFirstBlock(s, open, close) ==
    IF HasBlock(s, open, close)
    THEN SubSeq(s, 1, BlockStart(s, open, close) - 1)
         \o SubSeq(s, BlockEnd(s, open, close) + 1, Len(s))
    ELSE s

\* Highlight payloads that are JSON texts, one token each, with the value JSON.parse
\* gives; any other payload makes JSON.parse throw
JsonPayloads ==
    << [ text  |-> "{\"elementIndex\":0,\"description\":\"D\"}",
         value |-> [elementIndex |-> JSInt(0), selector |-> JSUndefined,
                    description |-> JSStr(<<"D">>)] ],
       [ text  |-> "{\"elementIndex\":1}",
         value |-> [elementIndex |-> JSInt(1), selector |-> JSUndefined,
                    description |-> JSUndefined] ],
       [ text  |-> "{\"elementIndex\":99}",
         value |-> [elementIndex |-> JSInt(99), selector |-> JSUndefined,
                    description |-> JSUndefined] ],
       [ text  |-> "{\"selector\":\"#x\"}",
         value |-> [elementIndex |-> JSUndefined, selector |-> JSStr(<<"#x">>),
                    description |-> JSUndefined] ],
       [ text  |-> "null",
         value |-> NoInstruction ] >>

IsJsonText(payload) ==
    /\ Len(Trim(payload)) = 1
    /\ \E k \in 1..Len(JsonPayloads) : JsonPayloads[k].text = Trim(payload)[1]

\* JSON.parse(highlightMatch[1]) where it does not throw
JsonParse(payload) ==
    JsonPayloads[CHOOSE k \in 1..Len(JsonPayloads) :
                     JsonPayloads[k].text = Trim(payload)[1]].value

\* the class [-*...] as the file holds it: its last three characters are U+00E2, U+20AC and
\* U+00A2 (a bullet's UTF-8 bytes read as Latin), each written here as one token
IsBullet(c) == c \in {"-", "*", "U+00E2", "U+20AC", "U+00A2"}

IsSentenceEnd(c) == c \in {".", "!", "?"}

\* ^ under the m flag
AtLineStart(s, i) == i = 1 \/ s[i - 1] = "\n"

\* the first index from i on that holds no white space (Len(s) + 1 when there is none)
SkipSpaces(s, i) ==
    IF \E j \in i..Len(s) : ~IsSpace(s[j])
    THEN CHOOSE j \in i..Len(s) : ~IsSpace(s[j]) /\ \A k \in i..(j - 1) : IsSpace(s[k])
    ELSE Len(s) + 1

\* the first index from i on that holds no digit
SkipDigits(s, i) ==
    IF \E j \in i..Len(s) : ~IsDigit(s[j])
    THEN CHOOSE j \in i..Len(s) : ~IsDigit(s[j]) /\ \A k \in i..(j - 1) : IsDigit(s[k])
    ELSE Len(s) + 1

\* /^\s*[-*...]\s*/m matched at i: the index after the match, 0 when there is none
BulletEnd(s, i) ==
    LET j == SkipSpaces(s, i)
    IN  IF AtLineStart(s, i) /\ j <= Len(s) /\ IsBullet(s[j])
        THEN SkipSpaces(s, j + 1)
        ELSE 0

\* /^\s*\d+[.)]\s*/m matched at i: the index after the match, 0 when there is none
NumeralEnd(s, i) ==
    LET j == SkipSpaces(s, i)
        k == SkipDigits(s, j)
    IN  IF AtLineStart(s, i) /\ k > j /\ k <= Len(s) /\ s[k] \in {".", ")"}
        THEN SkipSpaces(s, k + 1)
        ELSE 0

\* .replace(/^\s*[-*...]\s*/gm, '')
RECURSIVE StripBullets(_, _)
StripBullets(s, i) ==
    IF i > Len(s) THEN <<>>
    ELSE IF BulletEnd(s, i) # 0 THEN StripBullets(s, BulletEnd(s, i))
         ELSE <<s[i]>> \o StripBullets(s, i + 1)

\* .replace(/^\s*\d+[.)]\s*/gm, '')
RECURSIVE StripNumerals(_, _)
StripNumerals(s, i) ==
    IF i > Len(s) THEN <<>>
    ELSE IF NumeralEnd(s, i) # 0 THEN StripNumerals(s, NumeralEnd(s, i))
         ELSE <<s[i]>> \o StripNumerals(s, i + 1)

\* .replace(/\r/g, '')
RemoveCR(s) == SelectSeq(s, LAMBDA c : c # "\r")

\* cleaned.split(/\n+/)
RECURSIVE SplitLines(_, _, _)
SplitLines(s, i, cur) ==
    IF i > Len(s) THEN <<cur>>
    ELSE IF s[i] = "\n"
         THEN IF i > 1 /\ s[i - 1] = "\n"
              THEN SplitLines(s, i + 1, cur)
              ELSE <<cur>> \o SplitLines(s, i + 1, <<>>)
         ELSE SplitLines(s, i + 1, Append(cur, s[i]))

\* line.split(/(?<=[.!?])\s+/)
RECURSIVE SplitSentences(_, _, _)
SplitSentences(line, i, cur) ==
    IF i > Len(line) THEN <<cur>>
    ELSE IF IsSpace(line[i]) /\ i > 1 /\ IsSentenceEnd(line[i - 1])
         THEN <<cur>> \o SplitSentences(line, SkipSpaces(line, i), <<>>)
         ELSE SplitSentences(line, i + 1, Append(cur, line[i]))

\* lines.flatMap(line => line.split(...))
RECURSIVE FlatMapSentences(_)
FlatMapSentences(lines) ==
    IF lines = <<>> THEN <<>>
    ELSE SplitSentences(Head(lines), 1, <<>>) \o FlatMapSentences(Tail(lines))

\* .map(part => part.trim()).filter(Boolean)
RECURSIVE TrimAndFilter(_)
TrimAndFilter(parts) ==
    IF parts = <<>> THEN <<>>
    ELSE (IF Trim(Head(parts)) = <<>> THEN <<>> ELSE <<Trim(Head(parts))>>)
         \o TrimAndFilter(Tail(parts))

\* line.replace(/\s+/g, ' ')
RECURSIVE CollapseSpaces(_, _)
CollapseSpaces(s, i) ==
    IF i > Len(s) THEN <<>>
    ELSE IF IsSpace(s[i])
         THEN <<" ">> \o CollapseSpaces(s, SkipSpaces(s, i))
         ELSE <<s[i]>> \o CollapseSpaces(s, i + 1)

\* a plausible slip: the first character is left as the reply has it
ActionLine_AsIs(line) ==
    Trim(CollapseSpaces(line, 1))

\* normalized.charAt(0).toUpperCase() + normalized.slice(1)
ActionLine(line) ==
    LET normalized == Trim(CollapseSpaces(line, 1))
    IN  IF normalized = <<>> THEN <<>>
        ELSE <<UpperOf(normalized[1])>> \o Tail(normalized)

formatActionStepResponse(text) ==
    LET cleaned == Trim(StripNumerals(StripBullets(RemoveCR(text), 1), 1))
        sentenceLikeParts == TrimAndFilter(FlatMapSentences(SplitLines(cleaned, 1, <<>>)))
    IN  IF cleaned = <<>> THEN MsgFallbackStep
        ELSE IF Len(sentenceLikeParts) = 0 THEN MsgFallbackStep
        ELSE IF Len(sentenceLikeParts) = 1 THEN ActionLine(sentenceLikeParts[1])
        ELSE ActionLine(sentenceLikeParts[1]) \o <<"\n">> \o ActionLine(sentenceLikeParts[2])

\* the characters of the texts the formatter is applied to: prose, white space, a
\* sentence end, a bullet and a numeral
TextChars == {"a", " ", "\n", ".", "-", "1"}

\* most characters of an enumerated text
MaxText == 5

RECURSIVE TextsOf(_)
TextsOf(n) ==
    IF n = 0 THEN {<<>>}
    ELSE TextsOf(n - 1) \cup {Append(t, c) : t \in TextsOf(n - 1), c \in TextChars}

\* non-clarify replies: a text alone or followed by a highlight block
FormatReplies ==
    {t \o b : t \in TextsOf(MaxText),
              b \in {<<>>, <<HighlightOpen, "{\"elementIndex\":0,\"description\":\"D\"}",
                             HighlightClose>>}} \ {<<>>}

TaskKinds == {"summarize", "guide", "navigate"}

\* the kinds the whole-popup specification triggers: guide and navigate take the same
\* branches of processCommand and handleGeminiResponse
TriggerKinds == {"summarize", "navigate"}

\* a plausible slip: the clarification is shown as the model wrote it
ClarifyText_Raw(body) == body

\* clarifyMatch[1].trim() || 'Could you clarify what you want to do on this page?'
ClarifyText(body) == OrElse(Trim(body), MsgDefaultClarify)

\* handleGeminiResponse, lines 1198-1213: what the reply says, before anything is done
Interpret(response, type) ==
    LET isClarify == HasBlock(response, ClarifyOpen, ClarifyClose)
        clarifyText ==
            IF isClarify
            THEN ClarifyText(BlockBody(response, ClarifyOpen, ClarifyClose))
            ELSE <<>>
        highlightMatch == HasBlock(response, HighlightOpen, HighlightClose)
        payload ==
            IF highlightMatch THEN BlockBody(response, HighlightOpen, HighlightClose)
            ELSE <<>>
        cleanResponse == Trim(RemoveFirstBlock(response, HighlightOpen, HighlightClose))
        displayResponse ==
            IF type \in {"guide", "navigate"}
            THEN formatActionStepResponse(cleanResponse)
            ELSE cleanResponse
    IN  [ isClarify         |-> isClarify,
          clarifyText       |-> clarifyText,
          block             |-> IF ~highlightMatch THEN "none"
                                ELSE IF IsJsonText(payload) THEN "ok" ELSE "bad",
          highlightData     |-> IF highlightMatch /\ IsJsonText(payload)
                                THEN JsonParse(payload) ELSE NoInstruction,
          responseToDisplay |-> OrElse(displayResponse, MsgNoFormat) ]

-----------------------------------------------------------------------------
(* The popup (popup.js): state, elements, and the functions that change them *)

\* handleGeminiResponse up to its first updateResponse (lines 1208-1216): the message
\* displayed for the reply doc of a command of kind scan.type
ResponseDisplayed ==
    /\ scan.pc = "idle"
    /\ scan' = [scan EXCEPT !.pc = "displayed",
                            !.shown = Interpret(doc, scan.type).responseToDisplay]
    /\ UNCHANGED <<doc, popupVars, overlayVars, resolveVars, voiceVars, backgroundVars>>

\* CONFIG as config.js freezes it: custom voice on, no browser fallback, arrows on
SourceConfig == [useCustomTTS |-> TRUE, fallbackToBrowserTTS |-> FALSE, visualArrows |-> TRUE]

\* the settings of CONFIG the popup reads, over both values of each flag
Configs == [useCustomTTS : BOOLEAN, fallbackToBrowserTTS : BOOLEAN, visualArrows : BOOLEAN]

\* const state = {...}; null is 0 for the fields that hold the object of a speech request
\* (the utterance, the audio element, its URL, the abort controller of request n are n)
FreshState ==
    [ isSpeaking                |-> FALSE,
      isProcessing              |-> FALSE,
      voiceOutputEnabled        |-> TRUE,
      currentUtterance          |-> 0,
      currentAudio              |-> 0,
      currentAudioUrl           |-> 0,
      currentTTSAbortController |-> 0,
      currentSpeakRequestId     |-> 0,
      activeSpeechEngine        |-> "null" ]

\* the elements after DOMContentLoaded: updateStatus('ready', 'Ready to guide')
FreshElements ==
    [ stopSpeechBtnDisabled |-> TRUE,
      statusDot             |-> "status-dot",
      statusText            |-> "Ready to guide",
      responseArea          |-> <<>> ]

EmptySnapshot == [interactiveElements |-> <<>>]

\* the running command (its type, the snapshot it read, the reply it handled), what it
\* did so far (shown, spoken, requested, sent, the calls it made), what it met (the tab
\* query's outcome, whether it started the injection, the getPageContent requests that
\* threw, a highlightElement answered with success false, a failed model call), the ids
\* speak issued, and the step just taken
FreshHist ==
    [ type          |-> "none",
      pageData      |-> EmptySnapshot,
      reply         |-> <<>>,
      shown         |-> <<>>,
      spoken        |-> <<>>,
      requested     |-> <<>>,
      sent          |-> <<>>,
      modelCalls    |-> 0,
      primaryCalls  |-> 0,
      fallbackCalls |-> 0,
      tab           |-> "unknown",
      injected      |-> FALSE,
      throws        |-> 0,
      refused       |-> FALSE,
      modelError    |-> FALSE,
      snapshot      |-> FALSE,
      speakIds      |-> <<>>,
      last          |-> [op |-> "none", id |-> 0] ]

\* the popup's mutable parts, threaded through the functions below
World == [state |-> state, elements |-> elements, speech |-> speech, hist |-> hist]

Commit(w) ==
    \E after \in {w} :
        /\ state' = after.state
        /\ elements' = after.elements
        /\ speech' = after.speech
        /\ hist' = after.hist

\* v is evaluated once, as an argument is in the source, and F applied to its value
Let(v, F(_)) == CHOOSE r \in {F(x) : x \in {v}} : TRUE

Stamp(w, op, id) == [w EXCEPT !.hist.last = [op |-> op, id |-> id]]

\* elements.statusDot.className after the switch of updateStatus
StatusDotClass(status) ==
    CASE status = "listening" -> "status-dot listening"
      [] status = "inactive"  -> "status-dot inactive"
      [] OTHER                -> "status-dot"

updateStatus(w, status, text) ==
    [w EXCEPT !.elements.statusDot = StatusDotClass(status),
              !.elements.statusText = text]

\* text.replace(/\n/g, '<br>')
NewlinesToBr(text) == [i \in 1..Len(text) |-> IF text[i] = "\n" THEN "<br>" ELSE text[i]]

updateResponse(w, text) ==
    [w EXCEPT !.elements.responseArea = NewlinesToBr(text),
              !.hist.shown = Append(@, text)]

\* the pending continuations that stopSpeaking cuts short: the fetch of the controller it
\* aborts, the audio it pauses, every utterance synthesis.cancel() drops
Interrupted(s, e) ==
    \/ e.at = "fetch" /\ e.id = s.currentTTSAbortController
    \/ e.at \in {"play", "ended"} /\ e.id = s.currentAudio
    \/ e.at \in {"onstart", "onend"}

stopSpeaking(world, updateUI, invalidateRequest) ==
    Let(world, LAMBDA w :
    LET w1 == [w EXCEPT
                 !.state.currentSpeakRequestId = IF invalidateRequest THEN @ + 1 ELSE @,
                 !.state.currentTTSAbortController = 0,
                 !.state.currentUtterance = 0,
                 !.state.currentAudio = 0,
                 !.state.currentAudioUrl = 0,
                 !.state.activeSpeechEngine = "null",
                 !.state.isSpeaking = FALSE,
                 !.elements.stopSpeechBtnDisabled = TRUE,
                 !.speech = {IF Interrupted(w.state, e) THEN [e EXCEPT !.aborted = TRUE] ELSE e
                             : e \in w.speech}]
    IN  IF updateUI THEN updateStatus(w1, "ready", "Ready to guide") ELSE w1)

\* a plausible slip: a completion handler that never takes its request for stale
IsStale_Never(requestId, currentSpeakRequestId) == FALSE

\* requestId !== state.currentSpeakRequestId
IsStale(requestId, currentSpeakRequestId) == requestId # currentSpeakRequestId

\* a plausible slip: the new request reuses the current id
NextRequestId_Same(currentSpeakRequestId) == currentSpeakRequestId

\* const requestId = state.currentSpeakRequestId + 1
NextRequestId(currentSpeakRequestId) == currentSpeakRequestId + 1

Pending(requestId, at) == [id |-> requestId, at |-> at, aborted |-> FALSE]

speakWithBrowserTTS(w, requestId) ==
    [w EXCEPT !.state.currentUtterance = requestId,
              !.state.activeSpeechEngine = "browser",
              !.elements.stopSpeechBtnDisabled = FALSE,
              !.speech = @ \cup {Pending(requestId, "onstart")}]

\* playCustomTTSAudio up to the fetch of callCustomTTSAPI
playCustomTTSAudio(w, requestId) ==
    LET w1 == updateStatus(w, "processing", "Generating voice...")
    IN  [w1 EXCEPT !.elements.stopSpeechBtnDisabled = FALSE,
                   !.state.currentTTSAbortController = requestId,
                   !.speech = @ \cup {Pending(requestId, "fetch")}]

\* speak up to its first suspension
speak(world, cfg, text) ==
    Let(world, LAMBDA w :
    LET w0 == [w EXCEPT !.hist.spoken = Append(@, text)]
        requestId == NextRequestId(w.state.currentSpeakRequestId)
        w1 == stopSpeaking(w0, FALSE, FALSE)
        w2 == [w1 EXCEPT !.state.currentSpeakRequestId = requestId,
                         !.hist.speakIds = Append(@, requestId)]
    IN  IF ~w.state.voiceOutputEnabled THEN w0
        ELSE IF Trim(text) = <<>> THEN w0
        ELSE IF cfg.useCustomTTS THEN playCustomTTSAudio(w2, requestId)
        ELSE speakWithBrowserTTS(w2, requestId))

\* `Voice output error: ${error.message}`, the error's own text being one token
MsgVoiceError ==
    << "V", "o", "i", "c", "e", " ", "o", "u", "t", "p", "u", "t", " ", "e", "r", "r",
       "o", "r", ":", " ", "<error.message>" >>

\* the catch of speak, entered with the rejection of playCustomTTSAudio
speakCatch(world, cfg, requestId, outcome) ==
    Let(world, LAMBDA w :
    IF outcome = "abort" \/ IsStale(requestId, w.state.currentSpeakRequestId) THEN w
    ELSE IF ~cfg.fallbackToBrowserTTS
         THEN stopSpeaking(updateResponse(w, MsgVoiceError), TRUE, FALSE)
         ELSE speakWithBrowserTTS(
                  updateStatus(w, "processing",
                               "Custom voice unavailable, using browser voice..."),
                  requestId))

\* utterance.onend and utterance.onerror
utteranceOver(world, requestId) ==
    Let(world, LAMBDA w :
    IF IsStale(requestId, w.state.currentSpeakRequestId) THEN w
    ELSE updateStatus([w EXCEPT !.state.currentUtterance = 0,
                                !.state.activeSpeechEngine = "null",
                                !.state.isSpeaking = FALSE,
                                !.elements.stopSpeechBtnDisabled = TRUE],
                      "ready", "Ready to guide"))

\* utterance.onstart, and playCustomTTSAudio after audio.play() resolved
speechStarted(world, requestId, then) ==
    Let(world, LAMBDA w :
    IF IsStale(requestId, w.state.currentSpeakRequestId) THEN w
    ELSE updateStatus([w EXCEPT !.state.isSpeaking = TRUE,
                                !.elements.stopSpeechBtnDisabled = FALSE,
                                !.speech = @ \cup {Pending(requestId, then)}],
                      "speaking", "Speaking..."))

\* the messages the popup passes to chrome.tabs.sendMessage
NoMessage == [action |-> "none", selector |-> <<>>, description |-> <<>>]

GetPageContentMsg == [action |-> "getPageContent", selector |-> <<>>, description |-> <<>>]

ClearHighlightsMsg == [action |-> "clearHighlights", selector |-> <<>>, description |-> <<>>]

HighlightElementMsg(target) ==
    [action |-> "highlightElement", selector |-> target.selector,
     description |-> target.description]

\* one invocation of processCommand: where it is suspended, its type, the snapshot it
\* holds, the message a pending sendToContentScript carries and what follows that send
Invocation(pc, type) ==
    [pc |-> pc, type |-> type, pageData |-> EmptySnapshot, msg |-> NoMessage,
     next |-> "none"]

\* a plausible slip: processCommand without its guard
CallRejected_Never(s) == FALSE

\* if (state.isProcessing) return;
CallRejected(s) == s.isProcessing

\* a plausible slip: the finally block resets the status and leaves the flag
commandReturns_StaysBusy(w, call) ==
    [ w    |-> updateStatus(w, "ready", "Ready to guide"),
      call |-> Invocation("returned", "none") ]

\* the finally block of processCommand
commandReturns(w, call) ==
    [ w    |-> updateStatus([w EXCEPT !.state.isProcessing = FALSE],
                            "ready", "Ready to guide"),
      call |-> Invocation("returned", "none") ]

\* a plausible slip: the error is displayed and not spoken
commandFails_Silent(w, cfg, call, message) ==
    commandReturns(updateResponse(w, MsgErrorPrefix \o message), call)

\* the catch block of processCommand, then its finally block
commandFails(w, cfg, call, message) ==
    LET errorMessage == MsgErrorPrefix \o message
    IN  commandReturns(speak(updateResponse(w, errorMessage), cfg, errorMessage), call)

\* sendToContentScript up to its chrome.tabs.query
sendToContentScript(w, call, message, next) ==
    [ w    |-> [w EXCEPT !.hist.requested = Append(@, message)],
      call |-> [call EXCEPT !.pc = "sendTabs", !.msg = message, !.next = next] ]

\* callGeminiAPI up to its fetch
callGeminiAPI(w, call) ==
    [ w    |-> [w EXCEPT !.hist.modelCalls = @ + 1],
      call |-> [call EXCEPT !.pc = "gemini", !.msg = NoMessage, !.next = "none"] ]

\* a plausible slip: processCommand without its test of pageData
pageContentResolved_Unchecked(w, cfg, call, isNull, pageData) ==
    sendToContentScript([w EXCEPT !.hist.pageData = pageData, !.hist.snapshot = ~isNull],
                        [call EXCEPT !.pageData = pageData], ClearHighlightsMsg, "gemini")

\* processCommand from the value getPageContent resolved with to its next suspension
pageContentResolved(w, cfg, call, isNull, pageData) ==
    IF isNull THEN commandFails(w, cfg, call, MsgNoPage)
    ELSE IF cfg.visualArrows
         THEN sendToContentScript([w EXCEPT !.hist.pageData = pageData,
                                            !.hist.snapshot = TRUE],
                                  [call EXCEPT !.pageData = pageData],
                                  ClearHighlightsMsg, "gemini")
         ELSE callGeminiAPI([w EXCEPT !.hist.pageData = pageData, !.hist.snapshot = TRUE],
                            [call EXCEPT !.pageData = pageData])

\* a plausible slip: the second failure waits and asks again
retryCatch_Again(w, cfg, call) ==
    [ w    |-> [w EXCEPT !.hist.throws = @ + 1],
      call |-> [call EXCEPT !.pc = "retryWait"] ]

\* getPageContent: the catch of the second request, resolve(null)
retryCatch(w, cfg, call) ==
    pageContentResolved([w EXCEPT !.hist.throws = @ + 1], cfg, call, TRUE, EmptySnapshot)

\* the caller of sendToContentScript resumed with whatever it resolved with
sendResolved(w, call) ==
    IF call.next = "gemini" THEN callGeminiAPI(w, call) ELSE commandReturns(w, call)

handleGeminiResponse(world, cfg, call, response) ==
    Let([world EXCEPT !.hist.reply = response], LAMBDA w :
    Let(Interpret(response, call.type), LAMBDA r :
    Let(ResolveStage(r.block, r.highlightData, call.pageData, r.responseToDisplay),
        LAMBDA stage :
    LET w1 == speak(updateResponse(w, r.clarifyText), cfg, r.clarifyText)
        w2 == speak(updateResponse(w, r.responseToDisplay), cfg, r.responseToDisplay)
        w3 == [w2 EXCEPT
                 !.hist.primaryCalls = IF stage.primaryCalled THEN @ + 1 ELSE @,
                 !.hist.fallbackCalls = IF stage.fallbackCalled THEN @ + 1 ELSE @]
        w4 == speak(updateResponse(w3, MsgReprompt), cfg, MsgReprompt)
    IN  IF r.isClarify THEN sendToContentScript(w1, call, ClearHighlightsMsg, "finish")
        ELSE IF ~stage.target.isNull
             THEN sendToContentScript(w3, call, HighlightElementMsg(stage.target), "finish")
        ELSE IF call.type \in {"guide", "navigate"}
             THEN sendToContentScript(w4, call, ClearHighlightsMsg, "finish")
        ELSE commandReturns(w3, call))))
-----------------------------------------------------------------------------
(* Inputs of the popup: snapshots the content script answers with, replies of the model *)

LabelledElement(text, n) == [text |-> text, ariaLabel |-> <<>>, selector |-> SelectorOf(n)]

\* snapshots with no element, one labelled element, an unlabelled and a labelled element
PopupSnapshots ==
    { EmptySnapshot,
      [interactiveElements |-> <<LabelledElement(<<"a">>, 1)>>],
      [interactiveElements |-> <<LabelledElement(<<>>, 1), LabelledElement(<<"A", " ", "b">>, 2)>>] }

\* the pieces replies are put together from: prose, clarify blocks, highlight blocks
\* with payloads that parse and that do not, and stray tags
ReplyParts ==
    { <<"a">>,
      <<"b", ".", " ">>,
      <<ClarifyOpen, ClarifyClose>>,
      <<ClarifyOpen, " ", ClarifyClose>>,
      <<ClarifyOpen, " ", "q", "?", ClarifyClose>>,
      <<HighlightOpen, "{\"elementIndex\":0,\"description\":\"D\"}", HighlightClose>>,
      <<HighlightOpen, " ", "{\"elementIndex\":99}", HighlightClose>>,
      <<HighlightOpen, "{", "x", HighlightClose>>,
      <<HighlightOpen>>,
      <<ClarifyClose>> }

\* most pieces in an enumerated reply
MaxParts == 3

RECURSIVE RepliesOf(_)
RepliesOf(n) ==
    IF n = 0 THEN {<<>>}
    ELSE RepliesOf(n - 1) \cup {r \o p : r \in RepliesOf(n - 1), p \in ReplyParts}

\* callGeminiAPI returns a text only when it is not empty
Replies == RepliesOf(MaxParts) \ {<<>>}

\* the replies the whole-popup specification draws from
SampleReplies ==
    { <<ClarifyOpen, "q", "?", ClarifyClose>>,
      <<"a", HighlightOpen, "{\"elementIndex\":0,\"description\":\"D\"}", HighlightClose>> }

\* the snapshots the whole-popup specification draws from
SampleSnapshots == {p \in PopupSnapshots : Len(p.interactiveElements) < 2}

\* error.message of a failed model call: the literal of line 1103, or the API's own text
ModelErrors == {MsgInvalidModel, <<"<error.message>">>}

\* most invocations of processCommand in a behaviour
MaxCalls == 2

-----------------------------------------------------------------------------
(* Actions of the popup *)

Suspended(i, pc) == i \in 1..Len(calls) /\ calls[i].pc = pc

Resume(i, r, op) ==
    \E done \in {r} :
        /\ calls' = [calls EXCEPT ![i] = done.call]
        /\ Commit(Stamp(done.w, op, 0))
    /\ UNCHANGED <<config, resolveVars, overlayVars, extractVars, voiceVars,
                   backgroundVars>>

\* a trigger calls processCommand(type)
ProcessCommand(type) ==
    /\ Len(calls) < MaxCalls
    /\ IF CallRejected(state)
       THEN /\ calls' = Append(calls, Invocation("rejected", "none"))
            /\ Commit(Stamp(World, "rejected", 0))
       ELSE LET w1 == [World EXCEPT !.state.isProcessing = TRUE,
                                    !.hist = [FreshHist EXCEPT !.speakIds = hist.speakIds,
                                                               !.type = type]]
                w2 == updateResponse(updateStatus(w1, "processing", "Analyzing page..."),
                                     MsgProcessing)
            IN  /\ calls' = Append(calls, Invocation("tabs", type))
                /\ Commit(Stamp(w2, "accepted", 0))
    /\ UNCHANGED <<config, resolveVars, overlayVars, extractVars, voiceVars,
                   backgroundVars>>

\* getPageContent: chrome.tabs.query settles (no tab also stands for a query that throws)
TabQueried(i, outcome) ==
    /\ Suspended(i, "tabs")
    /\ CASE outcome = "tab" ->
              Resume(i, [w |-> [World EXCEPT !.hist.tab = "tab", !.hist.injected = TRUE],
                         call |-> [calls[i] EXCEPT !.pc = "inject"]], "tabs")
         [] outcome = "none" ->
              Resume(i, pageContentResolved([World EXCEPT !.hist.tab = "missing"], config,
                                            calls[i], TRUE, EmptySnapshot), "tabs")
         [] outcome = "restricted" ->
              Resume(i, pageContentResolved(
                            updateResponse([World EXCEPT !.hist.tab = "restricted"],
                                           MsgRestricted),
                            config, calls[i], TRUE, EmptySnapshot), "tabs")

\* getPageContent: injection and the 100 ms delay are over, the first request is sent
Injected(i) ==
    /\ Suspended(i, "inject")
    /\ Resume(i, [w |-> [World EXCEPT !.hist.sent = Append(@, GetPageContentMsg)],
                  call |-> [calls[i] EXCEPT !.pc = "extract"]], "inject")

\* getPageContent: the first request is answered with a snapshot
Extracted(i, pageData) ==
    /\ Suspended(i, "extract")
    /\ Resume(i, pageContentResolved(World, config, calls[i], FALSE, pageData), "extract")

\* getPageContent: the first request is answered with nothing
ExtractedNothing(i) ==
    /\ Suspended(i, "extract")
    /\ Resume(i, pageContentResolved(World, config, calls[i], TRUE, EmptySnapshot), "extract")

\* getPageContent: the first request throws; the 300 ms delay starts
ExtractFailed(i) ==
    /\ Suspended(i, "extract")
    /\ Resume(i, [w |-> [World EXCEPT !.hist.throws = @ + 1],
                  call |-> [calls[i] EXCEPT !.pc = "retryWait"]], "extract")

\* getPageContent: the 300 ms delay is over, the second request is sent
RetryDelayElapsed(i) ==
    /\ Suspended(i, "retryWait")
    /\ Resume(i, [w |-> [World EXCEPT !.hist.sent = Append(@, GetPageContentMsg)],
                  call |-> [calls[i] EXCEPT !.pc = "retry"]], "retryWait")

\* getPageContent: the second request is answered with a snapshot
Retried(i, pageData) ==
    /\ Suspended(i, "retry")
    /\ Resume(i, pageContentResolved(World, config, calls[i], FALSE, pageData), "retry")

\* getPageContent: the second request throws or is answered with nothing
RetryFailed(i, outcome) ==
    /\ Suspended(i, "retry")
    /\ IF outcome = "throws"
       THEN Resume(i, retryCatch(World, config, calls[i]), "retry")
       ELSE Resume(i, pageContentResolved(World, config, calls[i], TRUE, EmptySnapshot),
                   "retry")

\* sendToContentScript: chrome.tabs.query settles
SendTabQueried(i, hasTab) ==
    /\ Suspended(i, "sendTabs")
    /\ IF hasTab
       THEN Resume(i, [w |-> [World EXCEPT !.hist.sent = Append(@, calls[i].msg)],
                       call |-> [calls[i] EXCEPT !.pc = "sendMsg"]], "sendTabs")
       ELSE Resume(i, sendResolved(World, calls[i]), "sendTabs")

\* how chrome.tabs.sendMessage can settle: with the content script's answer, which for
\* highlightElement may be {success: false}, or with an error
SendOutcomes(message) ==
    IF message.action = "highlightElement" THEN {"answered", "refused", "failed"}
    ELSE {"answered", "failed"}

\* sendToContentScript: chrome.tabs.sendMessage settles; the caller drops what it
\* resolved with
SendSettled(i, outcome) ==
    /\ Suspended(i, "sendMsg")
    /\ outcome \in SendOutcomes(calls[i].msg)
    /\ Resume(i, sendResolved([World EXCEPT !.hist.refused = @ \/ outcome = "refused"],
                              calls[i]), "sendMsg")

\* callGeminiAPI returns the reply and handleGeminiResponse runs to its suspension
ReplyHandled(i, response) ==
    /\ Suspended(i, "gemini")
    /\ Resume(i, handleGeminiResponse(World, config, calls[i], response), "gemini")

\* callGeminiAPI throws
GeminiFailed(i, message) ==
    /\ Suspended(i, "gemini")
    /\ Resume(i, commandFails([World EXCEPT !.hist.modelError = TRUE], config, calls[i],
                              message), "gemini")

\* a pending continuation of a speech request is taken off the set when it runs
Taken(e) == [World EXCEPT !.speech = @ \ {e}]

\* how a suspended step of the custom voice can settle
Outcomes(e) == IF e.aborted THEN {"ok", "error", "abort"} ELSE {"ok", "error"}

SpeechStep(e, w) ==
    /\ Commit(Stamp(w, "speech", e.id))
    /\ UNCHANGED <<config, calls, resolveVars, overlayVars, extractVars, voiceVars,
                   backgroundVars>>

\* callCustomTTSAPI: the fetch settles; its finally block, then playCustomTTSAudio up to
\* audio.play(), or the catch of speak
TTSFetchSettled(e, outcome) ==
    /\ e \in speech /\ e.at = "fetch" /\ outcome \in Outcomes(e)
    /\ \E w0 \in {[Taken(e) EXCEPT !.state.currentTTSAbortController =
                                      IF @ = e.id THEN 0 ELSE @]} :
           SpeechStep(e,
             IF outcome # "ok" THEN speakCatch(w0, config, e.id, outcome)
             ELSE IF IsStale(e.id, w0.state.currentSpeakRequestId) THEN w0
             ELSE [w0 EXCEPT !.state.currentAudio = e.id,
                             !.state.currentAudioUrl = e.id,
                             !.state.activeSpeechEngine = "custom",
                             !.speech = @ \cup {Pending(e.id, "play")}])

\* playCustomTTSAudio: audio.play() settles
AudioPlaySettled(e, outcome) ==
    /\ e \in speech /\ e.at = "play" /\ outcome \in Outcomes(e)
    /\ SpeechStep(e, IF outcome = "ok" THEN speechStarted(Taken(e), e.id, "ended")
                     ELSE speakCatch(Taken(e), config, e.id, outcome))

\* playCustomTTSAudio: audio.onended or audio.onerror
AudioFinished(e, outcome) ==
    /\ e \in speech /\ e.at = "ended" /\ outcome \in {"ok", "error"}
    /\ SpeechStep(e, IF outcome = "error" THEN speakCatch(Taken(e), config, e.id, outcome)
                     ELSE IF IsStale(e.id, state.currentSpeakRequestId) THEN Taken(e)
                     ELSE stopSpeaking(Taken(e), TRUE, FALSE))

\* utterance.onstart
UtteranceStarted(e) ==
    /\ e \in speech /\ e.at = "onstart"
    /\ SpeechStep(e, speechStarted(Taken(e), e.id, "onend"))

\* utterance.onend, or utterance.onerror before or after the start
UtteranceOver(e) ==
    /\ e \in speech /\ e.at \in {"onstart", "onend"}
    /\ SpeechStep(e, utteranceOver(Taken(e), e.id))

\* a click on the enabled stop button: stopSpeaking(event)
StopClicked ==
    /\ ~elements.stopSpeechBtnDisabled
    /\ Commit(Stamp(stopSpeaking(World, TRUE, TRUE), "stop", 0))
    /\ UNCHANGED <<config, calls, resolveVars, overlayVars, extractVars, voiceVars,
                   backgroundVars>>

-----------------------------------------------------------------------------
\* most calls of speak in a behaviour of the speech specification
MaxSpeaks == 2

\* most changes of the voice output toggle
MaxToggles == 2

\* the texts speak is called with
SpokenTexts == {<<"a">>, <<" ">>}

\* a command calls speak(text)
SpeakCalled(text) ==
    /\ Len(hist.spoken) < MaxSpeaks
    /\ Commit(Stamp(speak(World, config, text), "speak", 0))
    /\ UNCHANGED <<config, calls, resolveVars, overlayVars, extractVars, voiceVars,
                   backgroundVars>>

\* the speech requests whose continuations are pending and not stale
RequestsInFlight ==
    {e.id : e \in {p \in speech : /\ p.at \in {"fetch", "play", "onstart"}
                                  /\ ~IsStale(p.id, state.currentSpeakRequestId)}}

\* the change handler of voiceOutputToggle up to its await: applyVoiceOutputUI(enabled),
\* then saveVoiceOutputPreference(enabled) is pending
VoiceOutputToggled(enabled) ==
    /\ voice.toggles < MaxToggles
    /\ enabled # state.voiceOutputEnabled
    /\ Commit(Stamp([World EXCEPT !.state.voiceOutputEnabled = enabled], "toggle", 0))
    /\ voice' = [voice EXCEPT !.saves = Append(@, enabled),
                              !.toggles = @ + 1,
                              !.silenced = IF enabled THEN {} ELSE RequestsInFlight]
    /\ UNCHANGED <<config, calls, resolveVars, overlayVars, extractVars, backgroundVars>>

\* saveVoiceOutputPreference of the k-th waiting handler settles and the handler goes on:
\* if (!enabled) stopSpeaking()
PreferenceSaved(k) ==
    /\ k \in 1..Len(voice.saves)
    /\ Commit(Stamp(IF voice.saves[k] THEN World ELSE stopSpeaking(World, TRUE, TRUE),
                    "saved", 0))
    /\ voice' = [voice EXCEPT !.saves = SubSeq(@, 1, k - 1) \o SubSeq(@, k + 1, Len(@))]
    /\ UNCHANGED <<config, calls, resolveVars, overlayVars, extractVars, backgroundVars>>

\* startListening: speech that is playing is stopped, then recognition.start()
StartListening ==
    /\ voice.recognition = "idle"
    /\ Commit(Stamp(IF state.isSpeaking THEN stopSpeaking(World, TRUE, TRUE) ELSE World,
                    "listen", 0))
    /\ voice' = [voice EXCEPT
                   !.recognition = "starting",
                   !.earlier = {hist.speakIds[k] : k \in 1..Len(hist.speakIds)}]
    /\ UNCHANGED <<config, calls, resolveVars, overlayVars, extractVars, backgroundVars>>

\* recognition.onstart
RecognitionStarted ==
    /\ voice.recognition = "starting"
    /\ Commit(Stamp(updateStatus(World, "listening", "Listening..."), "onstart", 0))
    /\ voice' = [voice EXCEPT !.recognition = "active", !.isListening = TRUE]
    /\ UNCHANGED <<config, calls, resolveVars, overlayVars, extractVars, backgroundVars>>

\* recognition.onend: stopListening()
RecognitionEnded ==
    /\ voice.recognition = "active"
    /\ Commit(Stamp(updateStatus(World, "ready", "Ready to guide"), "onend", 0))
    /\ voice' = [voice EXCEPT !.recognition = "idle", !.isListening = FALSE]
    /\ UNCHANGED <<config, calls, resolveVars, overlayVars, extractVars, backgroundVars>>

(* The content script's overlay controller (content.js, VisualGuide) *)

\* The page: its elements in document order. An element has the selector that finds it,
\* its parent (0 for none), the text findElementByDescription reads from it, and whether
\* it is in that function's candidate list, matches the actionable selector list, shows
\* a pointer cursor with a box over 6 px, is visible, and matches the selector list of
\* PageExtractor.getInteractiveElements (a button, a span in it, a paragraph).
PageElements ==
    << [ selector |-> <<"#go">>, parent |-> 0, text |-> <<"G", "o">>, listed |-> TRUE,
         actionable |-> TRUE, pointerCue |-> FALSE, visible |-> TRUE, interactive |-> TRUE ],
       [ selector |-> <<"#go-label">>, parent |-> 1, text |-> <<"G", "o">>, listed |-> FALSE,
         actionable |-> FALSE, pointerCue |-> FALSE, visible |-> TRUE,
         interactive |-> FALSE ],
       [ selector |-> <<"#intro">>, parent |-> 0, text |-> <<"R", "e", "a", "d", " ", "m", "e">>,
         listed |-> TRUE, actionable |-> FALSE, pointerCue |-> FALSE, visible |-> TRUE,
         interactive |-> FALSE ] >>

ElementIds == 1..Len(PageElements)

\* the selectors and descriptions highlightElement is called with
OverlaySelectors == {<<"#go">>, <<"#go-label">>, <<"#intro">>, <<"#gone">>}

OverlayDescriptions == {<<>>, <<"g", "o">>, <<"r", "e", "a", "d">>, <<"z">>}

\* document.querySelector(selector): the first attached element the selector finds, 0 for
\* none (a selector that does not parse throws, which leaves element null as well)
querySelector(present, selector) ==
    IF \E i \in present : PageElements[i].selector = selector
    THEN CHOOSE i \in present :
             /\ PageElements[i].selector = selector
             /\ \A j \in present : PageElements[j].selector = selector => i <= j
    ELSE 0

isInteractiveElement(page, i) ==
    IF i = 0 THEN FALSE
    ELSE page[i].actionable \/ page[i].pointerCue

ExactMatchScore == 120

ContainsScore == 90

ContainedScore == 60

TokenScore == 10

InteractiveScore == 25

MinMatchScore == 20

MinTextLength == 2

\* the score findElementByDescription gives an element for a lower-cased description
DescriptionScore(i, lowerDesc) ==
    LET text == ToLowerCase(Trim(PageElements[i].text))
        descTokens == Words(lowerDesc)
        tokenMatches == Cardinality({k \in 1..Len(descTokens) : Includes(text, descTokens[k])})
    IN  (IF text = lowerDesc THEN ExactMatchScore ELSE 0)
        + (IF Includes(text, lowerDesc) THEN ContainsScore ELSE 0)
        + (IF Includes(lowerDesc, text) THEN ContainedScore ELSE 0)
        + tokenMatches * TokenScore
        + (IF isInteractiveElement(PageElements, i) THEN InteractiveScore ELSE 0)

ScanCap == 700

\* if (checked++ > 700) break; with the value checked has before the increment
ScanStops(checked) == checked > ScanCap

\* the candidates the loop went through before element i
CheckedBefore(present, i) ==
    Cardinality({j \in present : j < i /\ PageElements[j].listed})

\* the loop of findElementByDescription from element i on
RECURSIVE DescriptionScan(_, _, _, _, _)
DescriptionScan(present, lowerDesc, i, bestMatch, bestScore) ==
    IF i > Len(PageElements) THEN [bestMatch |-> bestMatch, bestScore |-> bestScore]
    ELSE IF i \notin present \/ ~PageElements[i].listed
         THEN DescriptionScan(present, lowerDesc, i + 1, bestMatch, bestScore)
    ELSE IF ScanStops(CheckedBefore(present, i))
         THEN [bestMatch |-> bestMatch, bestScore |-> bestScore]
    ELSE IF \/ ~PageElements[i].visible
            \/ Len(Trim(PageElements[i].text)) < MinTextLength
         THEN DescriptionScan(present, lowerDesc, i + 1, bestMatch, bestScore)
         ELSE IF DescriptionScore(i, lowerDesc) > bestScore
              THEN DescriptionScan(present, lowerDesc, i + 1, i,
                                   DescriptionScore(i, lowerDesc))
              ELSE DescriptionScan(present, lowerDesc, i + 1, bestMatch, bestScore)

findElementByDescription(present, description) ==
    LET best == DescriptionScan(present, ToLowerCase(description), 1, 0, 0)
    IN  IF best.bestScore >= MinMatchScore THEN best.bestMatch ELSE 0

\* element.closest(actionableSelector): the element or its nearest ancestor on the list
RECURSIVE closestActionable(_, _)
closestActionable(page, i) ==
    IF i = 0 THEN 0
    ELSE IF page[i].actionable THEN i
    ELSE closestActionable(page, page[i].parent)

RECURSIVE IsDescendant(_, _, _)
IsDescendant(page, i, ancestor) ==
    IF page[i].parent = 0 THEN FALSE
    ELSE page[i].parent = ancestor \/ IsDescendant(page, page[i].parent, ancestor)

\* the last loop of getActionableElement: up to four tests, the first of the node itself,
\* each of the others one step up the parent chain
RECURSIVE pointerCueAncestor(_, _, _)
pointerCueAncestor(page, current, steps) ==
    IF steps = 0 \/ current = 0 THEN 0
    ELSE IF page[current].pointerCue /\ page[current].visible THEN current
    ELSE pointerCueAncestor(page, page[current].parent, steps - 1)

PointerCueSteps == 4

\* getActionableElement in a page whose elements, in document order, are page
getActionableElement(page, present, element) ==
    LET closest == closestActionable(page, element)
        descendants == {i \in present : /\ IsDescendant(page, i, element)
                                        /\ page[i].actionable
                                        /\ page[i].visible}
    IN  IF element = 0 THEN 0
        ELSE IF isInteractiveElement(page, element) /\ page[element].visible THEN element
        ELSE IF closest # 0 /\ page[closest].visible THEN closest
        ELSE IF descendants # {}
             THEN CHOOSE i \in descendants : \A j \in descendants : i <= j
        ELSE pointerCueAncestor(page, element, PointerCueSteps)

\* const VisualGuide = {...}; null is 0 for the fields that hold a node, an element or a
\* handler or a frame request; a bound viewportHandler is TRUE
FreshGuide ==
    [ currentHighlight     |-> 0,
      currentArrow         |-> 0,
      currentTooltip       |-> 0,
      currentTargetElement |-> 0,
      currentDescription   |-> <<>>,
      currentIsInteractive |-> TRUE,
      currentArrowSide     |-> "top",
      dismissHandler       |-> 0,
      viewportHandler      |-> FALSE,
      pendingFrame         |-> 0 ]

NoListeners == [click |-> {}, viewport |-> FALSE]

\* the overlay's mutable parts, threaded through the functions below
Overlay ==
    [guide |-> guide, dom |-> dom, timers |-> timers, listeners |-> listeners,
     made |-> made, frames |-> frames]

CommitOverlay(o) ==
    \E after \in {o} :
        /\ guide' = after.guide
        /\ dom' = after.dom
        /\ timers' = after.timers
        /\ listeners' = after.listeners
        /\ made' = after.made
        /\ frames' = after.frames

\* the delays of the two setTimeout calls, in ticks of 100 ms
SettleDelay == 3

ArmDelay == 5

Sides == {"right", "left", "top"}

\* document.createElement('div') with the class and the first visual the source gives it
Node(id, kind, isInteractive) ==
    [id |-> id, kind |-> kind, scanTarget |-> ~isInteractive, side |-> "top",
     placed |-> FALSE]

\* a timer; node is history: the highlight node whose creation set a 500 ms timer
Timer(kind, delay, isInteractive, description, node) ==
    [kind |-> kind, left |-> delay, isInteractive |-> isInteractive,
     description |-> description, node |-> node]

\* a plausible slip: the second test chained to the first with else
clearHighlights_ElseIf(o) ==
    [o EXCEPT !.guide = [FreshGuide EXCEPT !.viewportHandler = o.guide.viewportHandler],
              !.listeners = [click    |-> @.click \ {o.guide.dismissHandler},
                             viewport |-> IF /\ o.guide.pendingFrame = 0
                                             /\ o.guide.viewportHandler
                                          THEN FALSE
                                          ELSE @.viewport],
              !.frames = @ \ {o.guide.pendingFrame},
              !.dom = {}]

clearHighlights(o) ==
    [o EXCEPT !.guide = [FreshGuide EXCEPT !.viewportHandler = o.guide.viewportHandler],
              !.listeners = [click    |-> @.click \ {o.guide.dismissHandler},
                             viewport |-> IF o.guide.viewportHandler THEN FALSE
                                          ELSE @.viewport],
              !.frames = @ \ {o.guide.pendingFrame},
              !.dom = {}]

\* the node is appended and held, a new dismiss handler made, its 500 ms timer set
createHighlight(o, isInteractive) ==
    [o EXCEPT !.dom = @ \cup {Node(o.made + 1, "highlight", isInteractive)},
              !.made = @ + 1,
              !.guide.currentHighlight = o.made + 1,
              !.guide.dismissHandler = o.made + 1,
              !.timers = Append(@, Timer("arm", ArmDelay, isInteractive, <<>>, o.made + 1))]

createArrow(o, isInteractive) ==
    [o EXCEPT !.dom = @ \cup {Node(o.made + 1, "arrow", isInteractive)},
              !.made = @ + 1,
              !.guide.currentArrow = o.made + 1]

createTooltip(o, description) ==
    IF description = <<>> THEN o
    ELSE [o EXCEPT !.dom = @ \cup {Node(o.made + 1, "tooltip", TRUE)},
                   !.made = @ + 1,
                   !.guide.currentTooltip = o.made + 1]

\* the held nodes are moved to the target; the arrow is redrawn when its side changes
Placed(o, side) ==
    { IF n.id \in {o.guide.currentHighlight, o.guide.currentTooltip}
      THEN [n EXCEPT !.placed = TRUE]
      ELSE IF n.id = o.guide.currentArrow
           THEN [n EXCEPT !.placed = TRUE,
                          !.side = IF side # o.guide.currentArrowSide THEN side ELSE @]
           ELSE n
      : n \in o.dom }

\* const minSideSpace = 130;
MinSideSpace == 130

\* a plausible slip: the space has to exceed the minimum
getArrowSide_Strict(rect, innerWidth) ==
    IF innerWidth - rect.right > MinSideSpace THEN "right"
    ELSE IF rect.left > MinSideSpace THEN "left"
    ELSE "top"

getArrowSide(rect, innerWidth) ==
    LET spaceLeft == rect.left
        spaceRight == innerWidth - rect.right
    IN  IF spaceRight >= MinSideSpace THEN "right"
        ELSE IF spaceLeft >= MinSideSpace THEN "left"
        ELSE "top"

\* how far the enumerated spaces lie from 0 and from the minimum
MaxSpan == 3

\* the spaces left and right of a target: about none, which is negative when the target
\* reaches out of the viewport, and about the minimum
Spaces == ((0 - MaxSpan)..MaxSpan) \cup ((MinSideSpace - MaxSpan)..(MinSideSpace + MaxSpan))

\* target rectangles and viewport widths with these spaces
Placements ==
    { [rect |-> [left |-> l, right |-> l + w], innerWidth |-> l + w + r]
      : l \in Spaces, r \in Spaces, w \in {0, 40} }

\* most candidates of findElementByDescription in an enumerated document
MaxCandidates == 703

\* what getActionableElement reads of an element: a plain visible one, a visible and an
\* invisible one on the actionable list, a visible one with a pointer cursor, an invisible
\* plain one
NodeKinds ==
    { [actionable |-> FALSE, pointerCue |-> FALSE, visible |-> TRUE],
      [actionable |-> TRUE, pointerCue |-> FALSE, visible |-> TRUE],
      [actionable |-> TRUE, pointerCue |-> FALSE, visible |-> FALSE],
      [actionable |-> FALSE, pointerCue |-> TRUE, visible |-> TRUE],
      [actionable |-> FALSE, pointerCue |-> FALSE, visible |-> FALSE] }

\* the elements of an enumerated page: each the only child of the one before
MaxDepth == 6

Chains ==
    { [i \in 1..MaxDepth |-> [actionable |-> kinds[i].actionable,
                              pointerCue |-> kinds[i].pointerCue,
                              visible    |-> kinds[i].visible,
                              parent     |-> i - 1]]
      : kinds \in [1..MaxDepth -> NodeKinds] }

\* highlightElement asks for the actionable element around the one it found
ActionableResolved(el) ==
    /\ scan.pc = "idle"
    /\ scan' = [pc |-> "resolved", el |-> el,
                target |-> getActionableElement(doc, 1..Len(doc), el)]
    /\ UNCHANGED <<doc, popupVars, overlayVars, resolveVars, voiceVars, backgroundVars>>

\* the loop of findElementByDescription over a document of doc.candidates candidates,
\* counted: the loop head lets the next candidate through and the body examines it
CandidateExamined ==
    /\ scan.pc = "scan"
    /\ scan.checked < doc.candidates
    /\ ~ScanStops(scan.checked)
    /\ scan' = [scan EXCEPT !.checked = @ + 1, !.examined = @ + 1]
    /\ UNCHANGED <<doc, popupVars, overlayVars, resolveVars, voiceVars, backgroundVars>>

\* the loop head breaks
ScanBroken ==
    /\ scan.pc = "scan"
    /\ scan.checked < doc.candidates
    /\ ScanStops(scan.checked)
    /\ scan' = [scan EXCEPT !.checked = @ + 1, !.pc = "done"]
    /\ UNCHANGED <<doc, popupVars, overlayVars, resolveVars, voiceVars, backgroundVars>>

\* the loop is through the candidates
ScanExhausted ==
    /\ scan.pc = "scan"
    /\ scan.checked = doc.candidates
    /\ scan' = [scan EXCEPT !.pc = "done"]
    /\ UNCHANGED <<doc, popupVars, overlayVars, resolveVars, voiceVars, backgroundVars>>

\* the descriptions the text-similarity fallback is asked for: texts of the page in other
\* case, parts and extensions of them, single tokens, and texts the page does not hold
SearchDescriptions ==
    { <<"g", "o">>, <<"G", "O">>, <<"g">>, <<"g", "o", " ", "n", "o", "w">>,
      <<"r", "e", "a", "d">>, <<"R", "e", "a", "d", " ", "m", "e">>, <<"m", "e">>,
      <<"m", "e", " ", "z">>, <<"z">>, <<"z", " ", "y">>, <<"x", "y", "z">>, <<" ", "z">>,
      <<"n", "o", "w">>, <<"e", "a">> }

\* highlightElement falls back to findElementByDescription (line 1595) in a document
\* that holds the elements doc.present
DescriptionSearched(description) ==
    /\ scan.pc = "idle"
    /\ scan' = [pc |-> "searched", description |-> description,
                match |-> findElementByDescription(doc.present, description)]
    /\ UNCHANGED <<doc, popupVars, overlayVars, resolveVars, voiceVars, backgroundVars>>

\* updateGuidePositions reads the target's rectangle and asks for the arrow's side
ArrowSideChosen ==
    /\ scan.pc = "idle"
    /\ scan' = [pc |-> "side", side |-> getArrowSide(doc.rect, doc.innerWidth)]
    /\ UNCHANGED <<doc, popupVars, overlayVars, resolveVars, voiceVars, backgroundVars>>

\* side is getArrowSide of the rectangle the target has when the function runs
updateGuidePositions(overlay, present, side) ==
    Let(overlay, LAMBDA o :
    IF \/ o.guide.currentTargetElement = 0
       \/ o.guide.currentHighlight = 0
       \/ o.guide.currentArrow = 0
    THEN o
    ELSE IF o.guide.currentTargetElement \notin present THEN clearHighlights(o)
    ELSE [o EXCEPT !.dom = Placed(o, side), !.guide.currentArrowSide = side])

\* a plausible slip: handleViewportChange without its guard
FramePending_Never(g) == FALSE

\* if (this.pendingFrame) return;
FramePending(g) == g.pendingFrame # 0

\* requestAnimationFrame returns an id no pending request has
FreshFrame(o) ==
    CHOOSE id \in 1..(Cardinality(o.frames) + 2) :
        /\ id \notin o.frames \cup {o.guide.pendingFrame}
        /\ \A other \in 1..(id - 1) : other \in o.frames \cup {o.guide.pendingFrame}

\* handleViewportChange up to its return; the callback is frameCallback
handleViewportChange(o) ==
    IF FramePending(o.guide) THEN o
    ELSE [o EXCEPT !.guide.pendingFrame = FreshFrame(o),
                   !.frames = @ \cup {FreshFrame(o)}]

\* the callback handleViewportChange passed to requestAnimationFrame
frameCallback(o, present, side) ==
    updateGuidePositions([o EXCEPT !.guide.pendingFrame = 0], present, side)

enableViewportTracking(o) ==
    [o EXCEPT !.guide.viewportHandler = TRUE, !.listeners.viewport = TRUE]

\* the callback of the 300 ms timer of highlightElement
settle(overlay, present, timer, side) ==
    Let(createHighlight(overlay, timer.isInteractive), LAMBDA o1 :
    Let(createArrow(o1, timer.isInteractive), LAMBDA o2 :
    Let(createTooltip(o2, timer.description), LAMBDA o3 :
    enableViewportTracking(updateGuidePositions(o3, present, side)))))

\* highlightElement: the overlay it leaves and the value it returns
highlightElement(overlay, present, selector, description) ==
    Let(clearHighlights(overlay), LAMBDA o :
    LET bySelector == querySelector(present, selector)
        found == IF bySelector = 0 /\ description # <<>>
                 THEN findElementByDescription(present, description)
                 ELSE bySelector
        actionableTarget == getActionableElement(PageElements, present, found)
        element == IF actionableTarget # 0 THEN actionableTarget ELSE found
    IN  IF found = 0 THEN [o |-> o, success |-> FALSE]
        ELSE [ o |-> [o EXCEPT
                        !.guide.currentTargetElement = element,
                        !.guide.currentDescription = description,
                        !.guide.currentIsInteractive =
                            isInteractiveElement(PageElements, element),
                        !.timers = Append(@, Timer("settle", SettleDelay,
                                                   isInteractiveElement(PageElements,
                                                                        element),
                                                   description, 0))],
               success |-> TRUE ])

\* most calls of highlightElement in a behaviour
MaxShows == 2

\* the element and everything under it
Subtree(i) == {i} \cup {j \in ElementIds : IsDescendant(PageElements, j, i)}

\* the oldest of the timers whose delay has run out, 0 when there is none
DueTimer ==
    IF \E k \in 1..Len(timers) : timers[k].left = 0
    THEN CHOOSE k \in 1..Len(timers) :
             timers[k].left = 0 /\ \A j \in 1..(k - 1) : timers[j].left # 0
    ELSE 0

WithoutTimer(k) == SubSeq(timers, 1, k - 1) \o SubSeq(timers, k + 1, Len(timers))

\* the history after an operation: its name, whether the last call of highlightElement
\* found no element, whether a clearHighlights message directly follows another,
\* whether a scroll or resize event arrived while the pending frame was requested, and
\* the calls of sendResponse the operation made
Logged(o, op, missing) ==
    [ op        |-> op,
      missing   |-> missing,
      replies   |-> <<>>,
      repeat    |-> op = "clear" /\ olog.op = "clear",
      collapsed |-> /\ o.frames # {}
                    /\ op # "frame"
                    /\ (olog.collapsed \/ (op = "viewport" /\ frames # {})) ]

FreshLog ==
    [op |-> "load", missing |-> FALSE, replies |-> <<>>, repeat |-> FALSE,
     collapsed |-> FALSE]

\* what a message handled under an operation's name answered
Answered(o, op, missing, replies) == [Logged(o, op, missing) EXCEPT !.replies = replies]

OverlayStep(o, op) ==
    /\ CommitOverlay(o)
    /\ olog' = Logged(o, op, olog.missing)
    /\ UNCHANGED <<attached, shows, popupVars, resolveVars, extractVars, voiceVars,
                   backgroundVars>>

\* the message handler's case 'highlightElement'
Shown(selector, description) ==
    /\ shows' = shows + 1
    /\ \E r \in {highlightElement(Overlay, attached, selector, description)} :
           /\ CommitOverlay(r.o)
           /\ olog' = Answered(r.o, "show", ~r.success, <<[success |-> r.success]>>)
    /\ UNCHANGED <<attached, popupVars, resolveVars, extractVars, voiceVars,
                   backgroundVars>>

\* a highlightElement message arrives
HighlightElement(selector, description) ==
    /\ shows < MaxShows
    /\ Shown(selector, description)

\* the message handler's case 'clearHighlights'
ClearHighlights ==
    /\ CommitOverlay(clearHighlights(Overlay))
    /\ olog' = Answered(clearHighlights(Overlay), "clear", olog.missing,
                        <<[success |-> TRUE]>>)
    /\ UNCHANGED <<attached, shows, popupVars, resolveVars, extractVars, voiceVars,
                   backgroundVars>>

\* 100 ms pass while no timer is due
Tick ==
    /\ timers # <<>>
    /\ DueTimer = 0
    /\ OverlayStep([Overlay EXCEPT
                      !.timers = [k \in 1..Len(timers) |-> [timers[k] EXCEPT !.left = @ - 1]]],
                   "timer")

\* the 300 ms timer of highlightElement runs
SettleTimerFires(side) ==
    /\ DueTimer # 0
    /\ timers[DueTimer].kind = "settle"
    /\ OverlayStep(settle([Overlay EXCEPT !.timers = WithoutTimer(DueTimer)], attached,
                          timers[DueTimer], side), "timer")

\* the 500 ms timer of createHighlight runs: addEventListener('click', this.dismissHandler)
ArmTimerFires ==
    /\ DueTimer # 0
    /\ timers[DueTimer].kind = "arm"
    /\ OverlayStep([Overlay EXCEPT
                      !.timers = WithoutTimer(DueTimer),
                      !.listeners.click = IF guide.dismissHandler = 0 THEN @
                                          ELSE @ \cup {guide.dismissHandler}], "timer")

\* a click in the document runs the dismiss handlers that listen: each calls
\* clearHighlights and then removes this.dismissHandler, which is null by then
DocumentClick ==
    /\ listeners.click # {}
    /\ OverlayStep(clearHighlights(Overlay), "click")

\* a scroll or resize event: handleViewportChange
ViewportChanged ==
    /\ listeners.viewport
    /\ OverlayStep(handleViewportChange(Overlay), "viewport")

\* a requested animation frame comes: its callback runs
FrameFires(side) ==
    /\ \E id \in frames :
           OverlayStep(frameCallback([Overlay EXCEPT !.frames = @ \ {id}], attached, side),
                       "frame")

\* the page takes an element, and what is under it, out of the document
ElementRemoved(i) ==
    /\ i \in attached
    /\ attached' = attached \ Subtree(i)
    /\ olog' = Logged(Overlay, "page", olog.missing)
    /\ UNCHANGED <<guide, dom, timers, listeners, made, frames, shows, popupVars,
                   resolveVars, extractVars, voiceVars,
                   backgroundVars>>

\* PageExtractor.getPageContent() for this page: of the snapshot, the selectors of the
\* interactive elements, in document order
PageSnapshot(present) ==
    [ interactiveElements |->
          SelectSeq([i \in ElementIds |-> PageElements[i].selector],
                    LAMBDA sel : \E i \in present : /\ PageElements[i].selector = sel
                                                     /\ PageElements[i].interactive
                                                     /\ PageElements[i].visible) ]

\* the message handler's case 'getPageContent'
GetPageContentAsked ==
    /\ olog.op # "getPage"
    /\ olog' = Answered(Overlay, "getPage", olog.missing, <<PageSnapshot(attached)>>)
    /\ UNCHANGED <<guide, dom, timers, listeners, made, frames, attached, shows, popupVars,
                   resolveVars, extractVars, voiceVars,
                   backgroundVars>>

\* the elements field of a showPath message: absent, an empty list, or a list whose first
\* entry has this selector and description
PathLists == {"undefined", "empty"} \cup (OverlaySelectors \X {<<"g", "o">>})

\* showAnimatedPath(elements) and the handler's sendResponse after it: elements.length
\* throws when the message has no elements, and the handler ends there
showAnimatedPath(o, present, pathElements) ==
    IF pathElements = "undefined" THEN [o |-> o, replies |-> <<>>, missing |-> olog.missing]
    ELSE IF pathElements = "empty"
         THEN [o |-> o, replies |-> <<[success |-> TRUE]>>, missing |-> olog.missing]
    ELSE Let(highlightElement(o, present, pathElements[1], pathElements[2]), LAMBDA r :
             [o |-> r.o, replies |-> <<[success |-> TRUE]>>, missing |-> ~r.success])

\* the message handler's case 'showPath'
ShowPathAsked(pathElements) ==
    /\ shows < MaxShows
    /\ shows' = shows + 1
    /\ \E r \in {showAnimatedPath(Overlay, attached, pathElements)} :
           /\ CommitOverlay(r.o)
           /\ olog' = Answered(r.o, "path", r.missing, r.replies)
    /\ UNCHANGED <<attached, popupVars, resolveVars, extractVars, voiceVars,
                   backgroundVars>>

\* the message handler's default case: a message with any other action
OtherMessage ==
    /\ olog.op # "other"
    /\ olog' = Answered(Overlay, "other", olog.missing, <<[error |-> "Unknown action"]>>)
    /\ UNCHANGED <<guide, dom, timers, listeners, made, frames, attached, shows, popupVars,
                   resolveVars, extractVars, voiceVars,
                   backgroundVars>>

\* most calls of highlightElement in a behaviour of rapid requests
MaxBurst == 3

\* highlightElement for the button, once more
RapidHighlight ==
    /\ shows < MaxBurst
    /\ Shown(<<"#go">>, <<"g", "o">>)
-----------------------------------------------------------------------------
(* The content script's page extractor (content.js, PageExtractor) *)

\* A document is the sequence of its elements in document order; an element has its tag,
\* its id ('' is the empty sequence), its class names, the value of its data-k attribute
\* (empty for none) and its parent (0 for the root).
Root == [tag |-> "html", id |-> <<>>, classes |-> <<>>, data |-> <<>>, parent |-> 0]

Tags == {"div", "a"}

Ids == {<<>>, <<"x">>, <<"1">>}

ClassLists == {<<>>, << <<"c">> >>}

DataValues == {<<>>, <<"v">>}

\* most elements of an enumerated document
MaxDocNodes == 4

\* the last element of a document and its ancestors: where the next element can hang
RECURSIVE Spine(_, _)
Spine(d, i) == IF i = 0 THEN {} ELSE {i} \cup Spine(d, d[i].parent)

RECURSIVE DocsOf(_)
DocsOf(n) ==
    IF n = 1 THEN {<<Root>>}
    ELSE { Append(e[1], [tag |-> e[2], id |-> e[3], classes |-> e[4], data |-> e[5],
                         parent |-> e[6]])
           : e \in {f \in DocsOf(n - 1) \X Tags \X Ids \X ClassLists \X DataValues
                        \X (1..(n - 1)) : f[6] \in Spine(f[1], n - 1)} }

\* CSS.escape(value): a leading digit becomes its code point escape, "\3d "
CssEscape(value) ==
    IF value # <<>> /\ IsDigit(value[1])
    THEN <<"\\", "3", value[1], " ">> \o Tail(value)
    ELSE value

\* the identifier or string a selector's escaped text stands for
CssUnescape(text) ==
    IF Len(text) >= 4 /\ text[1] = "\\" /\ text[2] = "3" /\ IsDigit(text[3]) /\ text[4] = " "
    THEN <<text[3]>> \o SubSeq(text, 5, Len(text))
    ELSE text

\* the selectors generateSelector builds: `#id`, `tag.c1.c2`, `tag[data-k="v"]`,
\* `parent > tag:nth-child(index)` and `tag`
IdSelector(id) == [kind |-> "id", id |-> CssEscape(id)]

ClassSelector(tag, classes) ==
    [kind |-> "class", tag |-> tag,
     classes |-> [k \in 1..Len(classes) |-> CssEscape(classes[k])]]

DataSelector(tag, value) == [kind |-> "data", tag |-> tag, value |-> CssEscape(value)]

ChildSelector(parentSelector, tag, index) ==
    [kind |-> "child", parent |-> parentSelector, tag |-> tag, index |-> index]

TagSelector(tag) == [kind |-> "tag", tag |-> tag]

\* Array.from(parent.children).indexOf(el) + 1
ChildIndex(d, i) == Cardinality({j \in 1..i : d[j].parent = d[i].parent})

\* document.querySelectorAll(selector): the elements the selector matches
RECURSIVE querySelectorAll(_, _)
querySelectorAll(d, selector) ==
    CASE selector.kind = "id" ->
             {i \in 1..Len(d) : d[i].id # <<>> /\ d[i].id = CssUnescape(selector.id)}
      [] selector.kind = "class" ->
             {i \in 1..Len(d) :
                  /\ d[i].tag = selector.tag
                  /\ \A k \in 1..Len(selector.classes) :
                         \E m \in 1..Len(d[i].classes) :
                             d[i].classes[m] = CssUnescape(selector.classes[k])}
      [] selector.kind = "data" ->
             {i \in 1..Len(d) : /\ d[i].tag = selector.tag
                                /\ d[i].data = CssUnescape(selector.value)}
      [] selector.kind = "child" ->
             {i \in 1..Len(d) : /\ d[i].parent \in querySelectorAll(d, selector.parent)
                                /\ d[i].tag = selector.tag
                                /\ ChildIndex(d, i) = selector.index}
      [] selector.kind = "tag" -> {i \in 1..Len(d) : d[i].tag = selector.tag}

\* the class names generateSelector uses: the first two
SelectorClasses == 2

\* if (el.id)
HasOwnId(d, el) == d[el].id # <<>>

RECURSIVE generateSelector(_, _)
generateSelector(d, el) ==
    LET tag == d[el].tag
        classes == SubSeq(d[el].classes, 1,
                          IF Len(d[el].classes) < SelectorClasses THEN Len(d[el].classes)
                          ELSE SelectorClasses)
        byClass == ClassSelector(tag, classes)
        byData == DataSelector(tag, d[el].data)
    IN  IF HasOwnId(d, el) THEN IdSelector(d[el].id)
        ELSE IF classes # <<>> /\ Cardinality(querySelectorAll(d, byClass)) = 1 THEN byClass
        ELSE IF d[el].data # <<>> /\ Cardinality(querySelectorAll(d, byData)) = 1 THEN byData
        ELSE IF d[el].parent # 0
             THEN ChildSelector(generateSelector(d, d[el].parent), tag, ChildIndex(d, el))
        ELSE TagSelector(tag)

\* generateSelector is applied to an element of the document
SelectorGenerated(el) ==
    /\ scan.pc = "idle"
    /\ scan' = [pc |-> "selected", el |-> el, selector |-> generateSelector(doc, el)]
    /\ UNCHANGED <<doc, popupVars, overlayVars, resolveVars, voiceVars, backgroundVars>>

\* if (index >= 50) return;
InteractiveCap == 50

\* most elements matching the interactive selector list in an enumerated document
MaxMatches == 52

\* where an enumerated document has invisible matches: a subset of these places
HiddenSpots == {1, 2, InteractiveCap, InteractiveCap + 1}

\* the matches of the interactive selector list in document order, each visible or not
MatchLists ==
    { [i \in 1..n |-> [visible |-> i \notin hidden]]
      : n \in (InteractiveCap - 2)..MaxMatches, hidden \in SUBSET HiddenSpots }

\* the callback getInteractiveElements passes to forEach, for the match at a 0-based index
interactiveCallback(found, el, index, at) ==
    IF index >= InteractiveCap THEN found
    ELSE IF ~el.visible THEN found
    ELSE Append(found, at)

\* forEach calls the callback for the next match
InteractiveVisited ==
    /\ scan.pc = "each"
    /\ scan.index < Len(doc)
    /\ scan' = [scan EXCEPT !.index = @ + 1,
                            !.elements = interactiveCallback(@, doc[scan.index + 1],
                                                             scan.index, scan.index + 1)]
    /\ UNCHANGED <<doc, popupVars, overlayVars, resolveVars, voiceVars, backgroundVars>>

\* forEach is through: return elements;
InteractiveReturned ==
    /\ scan.pc = "each"
    /\ scan.index = Len(doc)
    /\ scan' = [scan EXCEPT !.pc = "returned"]
    /\ UNCHANGED <<doc, popupVars, overlayVars, resolveVars, voiceVars, backgroundVars>>

-----------------------------------------------------------------------------
(* Specifications *)

\* the values the resolution stage's variables hold where it is not exercised
ResolveParked ==
    /\ rIn = [block |-> "none", highlightData |-> NoInstruction,
              pageData |-> EmptySnapshot, responseToDisplay |-> <<>>]
    /\ rOut = ResolveIdle

-----------------------------------------------------------------------------
(* The voice transcript debounce (popup.js, scheduleVoiceCommandProcessing) *)

\* setTimeout(..., 1500), in time units of 500 ms
DebounceDelay == 3

\* state.pendingVoiceTranscript and state.voiceCommandDebounceTimer (0 is null), the
\* runtime's pending timers of the debounce (id, time left) and the ids given so far;
\* state.isListening, the recognition object ("idle", "starting" after start(), "active"
\* after onstart) and the change handlers of the voice output toggle that await
\* saveVoiceOutputPreference, each with its value of enabled.
\* History: the calls of processVoiceCommand, the final transcripts that arrived, grouped
\* in bursts (a transcript joins the last burst when it arrives less than DebounceDelay
\* after the one before), the time since the last arrival (capped at DebounceDelay), the
\* changes of the toggle so far, the speech requests that were in flight when voice
\* output was last switched off, and the requests issued before the last startListening
FreshVoice ==
    [ pendingVoiceTranscript    |-> <<>>,
      voiceCommandDebounceTimer |-> 0,
      timers                    |-> {},
      made                      |-> 0,
      isListening               |-> FALSE,
      recognition               |-> "idle",
      saves                     |-> <<>>,
      calls                     |-> <<>>,
      bursts                    |-> <<>>,
      since                     |-> DebounceDelay,
      toggles                   |-> 0,
      silenced                  |-> {},
      earlier                   |-> {} ]

\* a plausible slip: the pending timer is not cancelled
scheduleVoiceCommandProcessing_NoClear(v, transcript) ==
    [v EXCEPT !.pendingVoiceTranscript = transcript,
              !.timers = @ \cup {[id |-> v.made + 1, left |-> DebounceDelay]},
              !.made = @ + 1,
              !.voiceCommandDebounceTimer = v.made + 1]

scheduleVoiceCommandProcessing(v, transcript) ==
    [v EXCEPT !.pendingVoiceTranscript = transcript,
              !.timers = {t \in @ : t.id # v.voiceCommandDebounceTimer}
                             \cup {[id |-> v.made + 1, left |-> DebounceDelay]},
              !.made = @ + 1,
              !.voiceCommandDebounceTimer = v.made + 1]

\* the final transcripts recognition.onresult delivers
Transcripts == {<<"g", "o">>, <<"g", "o", " ", "o", "n">>, <<" ">>}

\* most final transcripts in a behaviour
MaxTranscripts == 4

DebounceDue == \E t \in voice.timers : t.left = 0

\* history: the bursts after one more arrival
Arrived(v, transcript) ==
    [v EXCEPT !.bursts = IF v.bursts # <<>> /\ v.since < DebounceDelay
                         THEN [@ EXCEPT ![Len(@)] = Append(@, transcript)]
                         ELSE Append(@, <<transcript>>),
              !.since = 0]

\* recognition.onresult with a final result; a timer that is due runs before an event
\* that arrives later
FinalTranscript(transcript) ==
    /\ voice.made < MaxTranscripts
    /\ ~DebounceDue
    /\ voice' = scheduleVoiceCommandProcessing(Arrived(voice, transcript), transcript)
    /\ UNCHANGED <<popupVars, overlayVars, resolveVars, extractVars, backgroundVars>>

\* 500 ms pass while no timer is due
VoiceTick ==
    /\ ~DebounceDue
    /\ voice.timers # {} \/ voice.since < DebounceDelay
    /\ voice' = [voice EXCEPT
                   !.timers = {[t EXCEPT !.left = @ - 1] : t \in @},
                   !.since = IF @ < DebounceDelay THEN @ + 1 ELSE @]
    /\ UNCHANGED <<popupVars, overlayVars, resolveVars, extractVars, backgroundVars>>

\* the debounce timer's callback (lines 483-488)
DebounceTimerFires ==
    /\ \E t \in voice.timers :
           /\ t.left = 0
           /\ voice' = [voice EXCEPT
                          !.timers = @ \ {t},
                          !.pendingVoiceTranscript = <<>>,
                          !.voiceCommandDebounceTimer = 0,
                          !.calls = Append(@, [transcript |-> voice.pendingVoiceTranscript,
                                               burst |-> Len(voice.bursts),
                                               since |-> voice.since])]
    /\ UNCHANGED <<popupVars, overlayVars, resolveVars, extractVars, backgroundVars>>

VoiceParked == voice = FreshVoice


-----------------------------------------------------------------------------
(* The service worker's settings handler (config.js, chrome.runtime.onMessage) *)

\* two of the keys of the settings object onInstalled stores
SettingKeys == {"voiceOutput", "visualArrows"}

SettingValues == {"on", "off"}

\* message.settings: a value for each key the message sets, "absent" for the others
SettingUpdates ==
    [SettingKeys -> SettingValues \cup {"absent"}] \ {[k \in SettingKeys |-> "absent"]}

\* newSettings of the updateSettings handler: { ...data.settings, ...message.settings }
Merged(settings, update) ==
    [k \in SettingKeys |-> IF update[k] # "absent" THEN update[k] ELSE settings[k]]

\* chrome.storage.local after onInstalled (settings), the storage operations requested
\* and not yet completed, in the order they were requested (a get holds the message
\* whose handler asked for it, a set the object to store); history: the settings of the
\* updateSettings messages in the order they arrived, and the sendResponse calls
FreshBackground ==
    [ settings  |-> [k \in SettingKeys |-> "on"],
      queue     |-> <<>>,
      received  |-> <<>>,
      responses |-> 0 ]

\* most updateSettings messages in a behaviour
MaxUpdates == 3

\* the handler's case 'updateSettings' up to its chrome.storage.local.get
UpdateSettingsReceived(update) ==
    /\ Len(background.received) < MaxUpdates
    /\ background' = [background EXCEPT
                        !.received = Append(@, update),
                        !.queue = Append(@, [op |-> "get", update |-> update])]
    /\ UNCHANGED <<popupVars, overlayVars, resolveVars, extractVars, voiceVars>>

\* the oldest get completes and its callback asks for the set of the merged object
SettingsRead ==
    /\ background.queue # <<>>
    /\ Head(background.queue).op = "get"
    /\ background' = [background EXCEPT
                        !.queue = Append(Tail(@),
                                         [op |-> "set", update |-> Head(@).update,
                                          value |-> Merged(background.settings,
                                                           Head(@).update)])]
    /\ UNCHANGED <<popupVars, overlayVars, resolveVars, extractVars, voiceVars>>

\* the oldest set completes and its callback answers {success: true}
SettingsWritten ==
    /\ background.queue # <<>>
    /\ Head(background.queue).op = "set"
    /\ background' = [background EXCEPT
                        !.queue = Tail(@),
                        !.settings = Head(background.queue).value,
                        !.responses = @ + 1]
    /\ UNCHANGED <<popupVars, overlayVars, resolveVars, extractVars, voiceVars>>

BackgroundParked == background = FreshBackground

\* the values the variables of the content script's functions hold where none is exercised
ExtractParked ==
    /\ doc = <<>>
    /\ scan = [pc |-> "idle"]

\* the values the popup's variables hold where it is not exercised
PopupParked ==
    /\ state = FreshState
    /\ elements = FreshElements
    /\ config = SourceConfig
    /\ calls = <<>>
    /\ speech = {}
    /\ hist = FreshHist

\* the values the overlay's variables hold where it is not exercised: the content script
\* as it is after loading (its last statement is VisualGuide.clearHighlights())
OverlayParked ==
    /\ guide = FreshGuide
    /\ dom = {}
    /\ timers = <<>>
    /\ listeners = NoListeners
    /\ made = 0
    /\ frames = {}
    /\ olog = FreshLog
    /\ attached = ElementIds
    /\ shows = 0

InitResolve ==
    /\ rIn \in [block : {"none", "bad", "ok"}, highlightData : Instructions,
                pageData : Snapshots, responseToDisplay : DisplayTexts]
    /\ rIn.block # "ok" => rIn.highlightData = NoInstruction
    /\ rOut = ResolveIdle
    /\ PopupParked
    /\ OverlayParked
    /\ VoiceParked
    /\ BackgroundParked
    /\ ExtractParked

\* the resolution stage runs on the inputs drawn
Resolve ==
    /\ ~rOut.done
    /\ rOut' = [done |-> TRUE] @@
               ResolveStage(rIn.block, rIn.highlightData, rIn.pageData,
                            rIn.responseToDisplay)
    /\ UNCHANGED <<rIn, popupVars, overlayVars, extractVars, voiceVars,
                   backgroundVars>>

\* one command: buildPrompt embeds the indexed list of the snapshot, the model answers
\* with a highlight block, and the resolution stage runs on the same snapshot
\* (processCommand, lines 864-870)
PromptedResolve ==
    /\ ~rOut.done
    /\ rOut' = [done |-> TRUE, prompt |-> getIndexedInteractiveElements(rIn.pageData)] @@
               ResolveStage(rIn.block, rIn.highlightData, rIn.pageData,
                            rIn.responseToDisplay)
    /\ UNCHANGED <<rIn, popupVars, overlayVars, extractVars, voiceVars,
                   backgroundVars>>

NextResolve == Resolve

SpecResolve == InitResolve /\ [][NextResolve]_vars

\* the popup after DOMContentLoaded, with the voice output preference it loaded
Init ==
    /\ state \in {[FreshState EXCEPT !.voiceOutputEnabled = v] : v \in BOOLEAN}
    /\ elements = FreshElements
    /\ config \in {c \in Configs : c.visualArrows /\ (c.fallbackToBrowserTTS => c.useCustomTTS)}
    /\ calls = <<>>
    /\ speech = {}
    /\ hist = FreshHist
    /\ ResolveParked
    /\ OverlayParked
    /\ VoiceParked
    /\ BackgroundParked
    /\ ExtractParked

Next ==
    \/ \E type \in TriggerKinds : ProcessCommand(type)
    \/ \E i \in 1..Len(calls), outcome \in {"tab", "none", "restricted"} : TabQueried(i, outcome)
    \/ \E i \in 1..Len(calls) : Injected(i)
    \/ \E i \in 1..Len(calls), pageData \in SampleSnapshots : Extracted(i, pageData)
    \/ \E i \in 1..Len(calls) : ExtractedNothing(i)
    \/ \E i \in 1..Len(calls) : ExtractFailed(i)
    \/ \E i \in 1..Len(calls) : RetryDelayElapsed(i)
    \/ \E i \in 1..Len(calls), pageData \in SampleSnapshots : Retried(i, pageData)
    \/ \E i \in 1..Len(calls), outcome \in {"throws", "nothing"} : RetryFailed(i, outcome)
    \/ \E i \in 1..Len(calls), hasTab \in BOOLEAN : SendTabQueried(i, hasTab)
    \/ \E i \in 1..Len(calls), outcome \in {"answered", "refused", "failed"} :
           SendSettled(i, outcome)
    \/ \E i \in 1..Len(calls), response \in SampleReplies : ReplyHandled(i, response)
    \/ \E i \in 1..Len(calls), message \in ModelErrors : GeminiFailed(i, message)
    \/ \E e \in speech, outcome \in {"ok", "error", "abort"} : TTSFetchSettled(e, outcome)
    \/ \E e \in speech, outcome \in {"ok", "error", "abort"} : AudioPlaySettled(e, outcome)
    \/ \E e \in speech, outcome \in {"ok", "error"} : AudioFinished(e, outcome)
    \/ \E e \in speech : UtteranceStarted(e)
    \/ \E e \in speech : UtteranceOver(e)
    \/ StopClicked

Spec == Init /\ [][Next]_vars

\* a step that resumes a suspended invocation of processCommand: an awaited tab query,
\* injection, delay, message or model call settles
CommandStep ==
    \E i \in 1..Len(calls) :
        \/ \E outcome \in {"tab", "none", "restricted"} : TabQueried(i, outcome)
        \/ Injected(i)
        \/ \E pageData \in SampleSnapshots : Extracted(i, pageData)
        \/ ExtractedNothing(i)
        \/ ExtractFailed(i)
        \/ RetryDelayElapsed(i)
        \/ \E pageData \in SampleSnapshots : Retried(i, pageData)
        \/ \E outcome \in {"throws", "nothing"} : RetryFailed(i, outcome)
        \/ \E hasTab \in BOOLEAN : SendTabQueried(i, hasTab)
        \/ \E outcome \in {"answered", "refused", "failed"} : SendSettled(i, outcome)
        \/ \E message \in ModelErrors : GeminiFailed(i, message)
        \/ \E response \in SampleReplies : ReplyHandled(i, response)

\* the popup as config.js sets it up
InitLive ==
    /\ Init
    /\ config = SourceConfig

\* navigate commands, the steps of their awaited calls, speech events and the stop button
NextLive ==
    \/ ProcessCommand("navigate")
    \/ CommandStep
    \/ \E e \in speech, outcome \in {"ok", "error", "abort"} : TTSFetchSettled(e, outcome)
    \/ \E e \in speech, outcome \in {"ok", "error", "abort"} : AudioPlaySettled(e, outcome)
    \/ \E e \in speech, outcome \in {"ok", "error"} : AudioFinished(e, outcome)
    \/ StopClicked

\* the popup where every awaited call of a command settles in the end
SpecLive == InitLive /\ [][NextLive]_vars /\ WF_vars(CommandStep)

\* a navigate, guide or summarize command suspended in callGeminiAPI: the page was read,
\* the old guidance cleared, the prompt sent
InitInterp ==
    /\ state \in {[FreshState EXCEPT !.voiceOutputEnabled = v, !.isProcessing = TRUE]
                  : v \in BOOLEAN}
    /\ elements = [FreshElements EXCEPT !.statusText = "Analyzing page...",
                                        !.responseArea = MsgProcessing]
    /\ config = SourceConfig
    /\ calls \in {<<[Invocation("gemini", type) EXCEPT !.pageData = pageData]>>
                  : type \in TaskKinds, pageData \in PopupSnapshots}
    /\ speech = {}
    /\ hist = [FreshHist EXCEPT !.type = calls[1].type,
                                !.pageData = calls[1].pageData,
                                !.shown = <<MsgProcessing>>,
                                !.requested = <<ClearHighlightsMsg>>,
                                !.sent = <<GetPageContentMsg, ClearHighlightsMsg>>,
                                !.modelCalls = 1,
                                !.tab = "tab",
                                !.injected = TRUE,
                                !.snapshot = TRUE,
                                !.last = [op |-> "sendMsg", id |-> 0]]
    /\ ResolveParked
    /\ OverlayParked
    /\ VoiceParked
    /\ BackgroundParked
    /\ ExtractParked

NextInterp ==
    \/ \E response \in Replies : ReplyHandled(1, response)
    \/ \E hasTab \in BOOLEAN : SendTabQueried(1, hasTab)
    \/ \E outcome \in {"answered", "refused", "failed"} : SendSettled(1, outcome)

SpecInterp == InitInterp /\ [][NextInterp]_vars

\* the content script after it loaded into a page
InitOverlay ==
    /\ OverlayParked
    /\ VoiceParked
    /\ BackgroundParked
    /\ PopupParked
    /\ ResolveParked
    /\ ExtractParked

NextOverlay ==
    \/ \E selector \in OverlaySelectors, description \in OverlayDescriptions :
           HighlightElement(selector, description)
    \/ ClearHighlights
    \/ Tick
    \/ \E side \in Sides : SettleTimerFires(side)
    \/ ArmTimerFires
    \/ DocumentClick
    \/ ViewportChanged
    \/ \E side \in Sides : FrameFires(side)
    \/ \E i \in ElementIds : ElementRemoved(i)

SpecOverlay == InitOverlay /\ [][NextOverlay]_vars

\* the overlay under requests for one element that come faster than its timers run
NextBurst ==
    \/ RapidHighlight
    \/ ClearHighlights
    \/ Tick
    \/ SettleTimerFires("top")
    \/ ArmTimerFires
    \/ DocumentClick

SpecBurst == InitOverlay /\ [][NextBurst]_vars

\* rapid requests for one element, which the page then removes while it scrolls
NextDetach ==
    \/ RapidHighlight
    \/ Tick
    \/ SettleTimerFires("top")
    \/ ArmTimerFires
    \/ ViewportChanged
    \/ FrameFires("top")
    \/ ElementRemoved(1)

SpecDetach == InitOverlay /\ [][NextDetach]_vars

\* findElementByDescription enters its loop in a document with about 700 candidates
InitScan ==
    /\ doc \in {[candidates |-> n] : n \in (ScanCap - 1)..MaxCandidates}
    /\ scan = [pc |-> "scan", checked |-> 0, examined |-> 0]
    /\ PopupParked
    /\ OverlayParked
    /\ VoiceParked
    /\ BackgroundParked
    /\ ResolveParked

NextScan ==
    \/ CandidateExamined
    \/ ScanBroken
    \/ ScanExhausted

SpecScan == InitScan /\ [][NextScan]_vars

\* a page of nested elements, before getActionableElement is applied to one of them
InitActionable ==
    /\ doc \in Chains
    /\ scan = [pc |-> "idle"]
    /\ PopupParked
    /\ OverlayParked
    /\ VoiceParked
    /\ BackgroundParked
    /\ ResolveParked

NextActionable == \E el \in 1..Len(doc) : ActionableResolved(el)

SpecActionable == InitActionable /\ [][NextActionable]_vars

\* a target rectangle in a viewport, before the arrow's side is chosen
InitArrow ==
    /\ doc \in Placements
    /\ scan = [pc |-> "idle"]
    /\ PopupParked
    /\ OverlayParked
    /\ VoiceParked
    /\ BackgroundParked
    /\ ResolveParked

NextArrow == ArrowSideChosen

SpecArrow == InitArrow /\ [][NextArrow]_vars

\* every document of the enumerated size, before generateSelector is applied
InitSelect ==
    /\ doc \in DocsOf(MaxDocNodes)
    /\ scan = [pc |-> "idle"]
    /\ PopupParked
    /\ OverlayParked
    /\ VoiceParked
    /\ BackgroundParked
    /\ ResolveParked

NextSelect == \E el \in 1..Len(doc) : SelectorGenerated(el)

SpecSelect == InitSelect /\ [][NextSelect]_vars

\* getInteractiveElements enters its loop over the matches of a document
InitInteractive ==
    /\ doc \in MatchLists
    /\ scan = [pc |-> "each", index |-> 0, elements |-> <<>>]
    /\ PopupParked
    /\ OverlayParked
    /\ VoiceParked
    /\ BackgroundParked
    /\ ResolveParked

NextInteractive ==
    \/ InteractiveVisited
    \/ InteractiveReturned

SpecInteractive == InitInteractive /\ [][NextInteractive]_vars

\* the content script's message handler under every kind of message, and its timers
NextMessages ==
    \/ \E selector \in OverlaySelectors, description \in OverlayDescriptions :
           HighlightElement(selector, description)
    \/ ClearHighlights
    \/ GetPageContentAsked
    \/ \E pathElements \in PathLists : ShowPathAsked(pathElements)
    \/ OtherMessage
    \/ Tick
    \/ SettleTimerFires("top")
    \/ ArmTimerFires

SpecMessages == InitOverlay /\ [][NextMessages]_vars

\* a guide or navigate command whose model call returned the reply doc
InitFormat ==
    /\ doc \in FormatReplies
    /\ scan \in {[pc |-> "idle", type |-> type, shown |-> <<>>] : type \in {"guide", "navigate"}}
    /\ PopupParked
    /\ OverlayParked
    /\ VoiceParked
    /\ BackgroundParked
    /\ ResolveParked

NextFormat == ResponseDisplayed

SpecFormat == InitFormat /\ [][NextFormat]_vars

\* the popup with no command running: speak calls, the events of their speech requests,
\* the stop button, the voice output toggle and the microphone
InitSpeech ==
    /\ state = FreshState
    /\ elements = FreshElements
    /\ config \in {c \in Configs : c.visualArrows /\ (c.fallbackToBrowserTTS => c.useCustomTTS)}
    /\ calls = <<>>
    /\ speech = {}
    /\ hist = FreshHist
    /\ ResolveParked
    /\ OverlayParked
    /\ ExtractParked
    /\ VoiceParked
    /\ BackgroundParked

NextSpeech ==
    \/ \E text \in SpokenTexts : SpeakCalled(text)
    \/ \E e \in speech, outcome \in {"ok", "error", "abort"} : TTSFetchSettled(e, outcome)
    \/ \E e \in speech, outcome \in {"ok", "error", "abort"} : AudioPlaySettled(e, outcome)
    \/ \E e \in speech, outcome \in {"ok", "error"} : AudioFinished(e, outcome)
    \/ \E e \in speech : UtteranceStarted(e)
    \/ \E e \in speech : UtteranceOver(e)
    \/ StopClicked
    \/ \E enabled \in BOOLEAN : VoiceOutputToggled(enabled)
    \/ \E k \in 1..Len(voice.saves) : PreferenceSaved(k)
    \/ StartListening
    \/ RecognitionStarted
    \/ RecognitionEnded

SpecSpeech == InitSpeech /\ [][NextSpeech]_vars

\* the service worker after installation
InitBackground ==
    /\ background = FreshBackground
    /\ PopupParked
    /\ OverlayParked
    /\ ResolveParked
    /\ ExtractParked
    /\ VoiceParked

NextBackground ==
    \/ \E update \in SettingUpdates : UpdateSettingsReceived(update)
    \/ SettingsRead
    \/ SettingsWritten

SpecBackground == InitBackground /\ [][NextBackground]_vars

\* the popup listening, before any final transcript
InitVoice ==
    /\ voice = FreshVoice
    /\ PopupParked
    /\ ResolveParked
    /\ ExtractParked
    /\ OverlayParked
    /\ BackgroundParked

NextVoice ==
    \/ \E transcript \in Transcripts : FinalTranscript(transcript)
    \/ VoiceTick
    \/ DebounceTimerFires

\* time passes and a due timer runs
SpecVoice == InitVoice /\ [][NextVoice]_vars /\ WF_vars(VoiceTick) /\ WF_vars(DebounceTimerFires)

\* a page some of whose elements are attached, before the description fallback runs
InitSearch ==
    /\ doc \in {[present |-> present] : present \in SUBSET ElementIds}
    /\ scan = [pc |-> "idle"]
    /\ PopupParked
    /\ OverlayParked
    /\ VoiceParked
    /\ BackgroundParked
    /\ ResolveParked

NextSearch == \E description \in SearchDescriptions : DescriptionSearched(description)

SpecSearch == InitSearch /\ [][NextSearch]_vars

\* a command on a snapshot of up to MaxSnapshot elements whose reply parsed to an instruction
InitPrompt ==
    /\ rIn \in [block : {"ok"}, highlightData : PromptInstructions,
                pageData : {LongSnapshot(n) : n \in {0, 1} \cup ((PromptCap - 1)..MaxSnapshot)},
                responseToDisplay : {<<"a">>}]
    /\ rOut = [ResolveIdle EXCEPT !.done = FALSE] @@ [prompt |-> <<>>]
    /\ PopupParked
    /\ OverlayParked
    /\ VoiceParked
    /\ BackgroundParked
    /\ ExtractParked

NextPrompt == PromptedResolve

SpecPrompt == InitPrompt /\ [][NextPrompt]_vars

\* the popup of a build whose config.js sets FEATURES.VISUAL_ARROWS to false
InitArrowsOff ==
    /\ state = FreshState
    /\ elements = FreshElements
    /\ config = [SourceConfig EXCEPT !.visualArrows = FALSE]
    /\ calls = <<>>
    /\ speech = {}
    /\ hist = FreshHist
    /\ ResolveParked
    /\ OverlayParked
    /\ VoiceParked
    /\ BackgroundParked
    /\ ExtractParked

SpecArrowsOff == InitArrowsOff /\ [][NextLive]_vars

-----------------------------------------------------------------------------
(* Claims about the resolution stage, under SpecResolve *)

IndexIsJsonInteger ==
    rIn.highlightData.elementIndex.t = "number" /\ ~rIn.highlightData.elementIndex.frac

IndexInRange ==
    /\ rIn.highlightData.elementIndex.n >= 0
    /\ rIn.highlightData.elementIndex.n < Len(rIn.pageData.interactiveElements)

IndexedElement ==
    rIn.pageData.interactiveElements[rIn.highlightData.elementIndex.n + 1]

\* the instruction's description as written, empty when absent
RawDescription ==
    IF rIn.highlightData.description.t = "string"
    THEN rIn.highlightData.description.s
    ELSE <<>>

\* the instruction carries a selector that is a string with something in it
HasUsableSelector ==
    /\ rIn.highlightData.selector.t = "string"
    /\ Trim(rIn.highlightData.selector.s) # <<>>

\* C7 as stated: for an integer elementIndex i within the snapshot, the primary path
\* returns element i's selector and the instruction's description or, when that is empty,
\* the descriptor's text, else its ariaLabel; for an integer outside the range and no
\* selector it returns null and the caller goes on to the text fallback.
C7_AsStated ==
    (/\ rOut.done
     /\ rIn.block = "ok"
     /\ IndexIsJsonInteger
     /\ rIn.highlightData.description.t \in {"string", "undefined"})
    => /\ IndexInRange =>
            rOut.primary =
                Target(IndexedElement.selector,
                       IF RawDescription # <<>> THEN RawDescription
                       ELSE IF IndexedElement.text # <<>> THEN IndexedElement.text
                       ELSE IndexedElement.ariaLabel)
       /\ (~IndexInRange /\ rIn.highlightData.selector.t = "undefined") =>
            rOut.primary = NoTarget /\ rOut.fallbackCalled

\* C7 as amended: for an integer elementIndex i within the snapshot, the primary path
\* returns element i's selector and the instruction's description trimmed of white space
\* (a description that is no string counts as empty) or, when that is empty, the
\* descriptor's text, else its ariaLabel, else the literal 'Recommended action'; for an
\* integer outside the range and no usable selector it returns null and the caller takes
\* the result of the text fallback.
C7_IndexPath ==
    (rOut.done /\ rIn.block = "ok" /\ IndexIsJsonInteger)
    => /\ IndexInRange =>
            /\ rOut.primary =
                Target(IndexedElement.selector,
                       IF Trim(RawDescription) # <<>> THEN Trim(RawDescription)
                       ELSE IF IndexedElement.text # <<>> THEN IndexedElement.text
                       ELSE IF IndexedElement.ariaLabel # <<>> THEN IndexedElement.ariaLabel
                       ELSE MsgRecommendedAction)
            /\ rOut.target = rOut.primary
            /\ ~rOut.fallbackCalled
       /\ (~IndexInRange /\ ~HasUsableSelector) =>
            /\ rOut.primary = NoTarget
            /\ rOut.fallbackCalled
            /\ rOut.target =
                   resolveFallbackHighlightTarget(rIn.pageData, rIn.responseToDisplay)

\* an integer index within the snapshot, a blank description, an element with text and label
C7_Witness ==
    /\ rOut.done
    /\ rIn.block = "ok"
    /\ IndexIsJsonInteger
    /\ IndexInRange
    /\ Trim(RawDescription) = <<>>
    /\ IndexedElement.text # <<>>
    /\ IndexedElement.ariaLabel # <<>>
    /\ rOut.target.description = IndexedElement.text

\* C8 as stated: when elementIndex is absent or is no integer (null, a string, a boolean,
\* an empty string) and the selector is a non-empty string S, the resolved target's
\* selector is S, not a snapshot element's.  Stated for S without surrounding white
\* space, where trimming changes nothing.
C8_NonIntegerIndexUsesSelector ==
    (/\ rOut.done
     /\ rIn.block = "ok"
     /\ ~IndexIsJsonInteger
     /\ rIn.highlightData.elementIndex.t \in {"undefined", "null", "string", "boolean"}
     /\ HasUsableSelector
     /\ Trim(rIn.highlightData.selector.s) = rIn.highlightData.selector.s)
    => /\ ~rOut.primary.isNull
       /\ rOut.primary.selector = rIn.highlightData.selector.s
       /\ rOut.target.selector = rIn.highlightData.selector.s

\* the score C10 describes: nothing for an element without text and label
ClaimedScore(element) ==
    LET label == Trim(ToLowerCase(element.text \o <<" ">> \o element.ariaLabel))
        lowerText == ToLowerCase(rIn.responseToDisplay)
    IN  IF label = <<>> THEN 0
        ELSE (IF Includes(lowerText, label) THEN 50 ELSE 0)
             + 4 * Cardinality({ k \in 1..Len(Words(label)) :
                                   Includes(lowerText, Words(label)[k]) })

\* C10 as stated: the fallback returns the first element of maximal score when that
\* score is positive, and the first element of the list when no score is positive.
C10_FallbackChoice ==
    (rOut.done /\ rOut.fallbackCalled /\ rIn.pageData.interactiveElements # <<>>)
    => LET els == rIn.pageData.interactiveElements
           best == CHOOSE k \in 1..Len(els) :
                       /\ \A j \in 1..Len(els) : ClaimedScore(els[j]) <= ClaimedScore(els[k])
                       /\ \A j \in 1..(k - 1) : ClaimedScore(els[j]) < ClaimedScore(els[k])
       IN  IF ClaimedScore(els[best]) > 0
           THEN rOut.target.selector = els[best].selector
           ELSE rOut.target.selector = els[1].selector

\* the instruction carries a selector that is a string of at least one character
HasNonEmptySelector ==
    /\ rIn.highlightData.selector.t = "string"
    /\ rIn.highlightData.selector.s # <<>>

\* C11 as stated: the two resolvers together give no target only when the snapshot has no
\* interactive element and the instruction supplied no non-empty selector; in every other
\* case they give a target whose selector and description are not empty.
C11_AsStated ==
    rOut.done =>
        /\ rOut.target.isNull <=>
               (rIn.pageData.interactiveElements = <<>> /\ ~HasNonEmptySelector)
        /\ ~rOut.target.isNull =>
               (rOut.target.selector # <<>> /\ rOut.target.description # <<>>)

\* C11 as amended: the two resolvers together give no target exactly when the snapshot has
\* no interactive element and the instruction supplied no selector that is a string with
\* something other than white space in it; in every other case they give a target whose
\* selector and description are not empty.
C11_TargetUnlessNothingToPointAt ==
    rOut.done =>
        /\ rOut.target.isNull <=>
               (rIn.pageData.interactiveElements = <<>> /\ ~HasUsableSelector)
        /\ ~rOut.target.isNull =>
               (rOut.target.selector # <<>> /\ rOut.target.description # <<>>)

\* a payload that parsed and names nothing usable, a snapshot whose elements carry no
\* text: the fallback still gives a target
C11_Witness ==
    /\ rOut.done
    /\ rIn.block = "ok"
    /\ ~HasUsableSelector
    /\ rOut.primary.isNull
    /\ rIn.pageData.interactiveElements # <<>>
    /\ \A k \in 1..Len(rIn.pageData.interactiveElements) :
           rIn.pageData.interactiveElements[k].text = <<>>
    /\ ~rOut.target.isNull

-----------------------------------------------------------------------------
(* Claims about the handling of a reply, under SpecInterp *)

\* the running command has handled the model's reply
Handled == hist.reply # <<>>

ClarifyReply == HasBlock(hist.reply, ClarifyOpen, ClarifyClose)

HighlightReply == HasBlock(hist.reply, HighlightOpen, HighlightClose)

\* X of [CLARIFY]X[/CLARIFY]
ClarifyBody == BlockBody(hist.reply, ClarifyOpen, ClarifyClose)

RequestedActions == {hist.requested[k].action : k \in 1..Len(hist.requested)}

SentActions == {hist.sent[k].action : k \in 1..Len(hist.sent)}

\* what follows the processing notice in the display
ShownSinceReply == SubSeq(hist.shown, 2, Len(hist.shown))

\* on a clarify reply nothing is resolved and no highlight is asked for or sent
NoHighlightDerived ==
    /\ hist.primaryCalls = 0
    /\ hist.fallbackCalls = 0
    /\ "highlightElement" \notin (RequestedActions \cup SentActions)

C6_NoBlockText ==
    (Handled /\ ~ClarifyReply /\ HighlightReply) =>
        /\ \A k \in 1..Len(ShownSinceReply) :
               ~HasBlock(ShownSinceReply[k], HighlightOpen, HighlightClose)
        /\ \A k \in 1..Len(hist.spoken) :
               ~HasBlock(hist.spoken[k], HighlightOpen, HighlightClose)

\* the highlight block of the reply carries a payload JSON.parse rejects
ParseFailed ==
    /\ Handled /\ ~ClarifyReply /\ HighlightReply
    /\ ~IsJsonText(BlockBody(hist.reply, HighlightOpen, HighlightClose))

StartsWith(s, prefix) == Len(s) >= Len(prefix) /\ SubSeq(s, 1, Len(prefix)) = prefix

\* the reply without its first highlight block, formatted for the command's type
FormattedReply ==
    LET clean == Trim(RemoveFirstBlock(hist.reply, HighlightOpen, HighlightClose))
        display == IF hist.type \in {"guide", "navigate"}
                   THEN formatActionStepResponse(clean) ELSE clean
    IN  IF display = <<>> THEN MsgNoFormat ELSE display

-----------------------------------------------------------------------------
(* Claims about the orchestrator and the speech output, under Spec *)

\* the invocations of processCommand that are past the guard and have not returned
InFlight == {i \in 1..Len(calls) : calls[i].pc \notin {"returned", "rejected"}}

\* this step is a call of processCommand that arrives while isProcessing is true
ArrivesWhileProcessing == Len(calls') = Len(calls) + 1 /\ state.isProcessing

\* C2: processCommand is single-flight: at most one invocation is ever in flight, and a
\* call arriving while isProcessing is true returns without sending a message, calling
\* the model, changing the display or resetting isProcessing.
C2_SingleFlight ==
    [][ /\ Cardinality(InFlight') <= 1
        /\ ArrivesWhileProcessing =>
               /\ calls'[Len(calls')].pc = "rejected"
               /\ SubSeq(calls', 1, Len(calls)) = calls
               /\ state' = state
               /\ elements' = elements
               /\ speech' = speech
               /\ hist'.sent = hist.sent
               /\ hist'.requested = hist.requested
               /\ hist'.modelCalls = hist.modelCalls
               /\ hist'.shown = hist.shown
               /\ hist'.spoken = hist.spoken ]_vars

\* a call was turned away while the command before it waits for the model's reply
C2_Witness ==
    /\ Len(calls) = 2
    /\ calls[1].pc = "gemini"
    /\ calls[2].pc = "rejected"
    /\ state.isProcessing

\* this step runs a completion event of a speech request that is no longer the current one
StaleEventRuns ==
    /\ hist'.last.op = "speech"
    /\ hist'.last.id # state.currentSpeakRequestId

\* C3: a completion event (fetch, play, ended or error of the custom voice; start, end or
\* error of an utterance) of a request whose id is not state.currentSpeakRequestId never
\* changes isSpeaking, activeSpeechEngine, currentAudio, the stop button or the status text.
C3_StaleEventsIgnored ==
    [][ StaleEventRuns =>
            /\ state'.isSpeaking = state.isSpeaking
            /\ state'.activeSpeechEngine = state.activeSpeechEngine
            /\ state'.currentAudio = state.currentAudio
            /\ elements'.stopSpeechBtnDisabled = elements.stopSpeechBtnDisabled
            /\ elements'.statusText = elements.statusText ]_vars

\* an event of an older request has just run while a newer request is speaking
C3_Witness ==
    /\ hist.last.op = "speech"
    /\ hist.last.id < state.currentSpeakRequestId
    /\ state.isSpeaking
    /\ state.activeSpeechEngine # "null"
    /\ ~elements.stopSpeechBtnDisabled

StrictlyIncreasing(ids) == \A j, k \in 1..Len(ids) : j < k => ids[j] < ids[k]

\* C4: state.currentSpeakRequestId never decreases; every call of speak that passes its
\* checks and every stopSpeaking with invalidateRequest = true raises it by exactly 1;
\* no two requests share an id and the newest request's id is the largest issued.
C4_RequestIdsMonotonic ==
    [][ LET issued == Len(hist'.speakIds) - Len(hist.speakIds)
            stops  == IF hist'.last.op = "stop" THEN 1 ELSE 0
        IN  /\ state'.currentSpeakRequestId >= state.currentSpeakRequestId
            /\ issued >= 0
            /\ state'.currentSpeakRequestId = state.currentSpeakRequestId + issued + stops
            /\ \A k \in 1..issued :
                   hist'.speakIds[Len(hist.speakIds) + k] = state.currentSpeakRequestId + k
            /\ StrictlyIncreasing(hist'.speakIds)
            /\ \A k \in 1..Len(hist'.speakIds) :
                   hist'.speakIds[k] <= state'.currentSpeakRequestId ]_vars

\* three requests were issued, two of them by one step, and a stop invalidated the newest
C4_Witness ==
    /\ Len(hist.speakIds) >= 3
    /\ hist.last.op = "stop"
    /\ state.currentSpeakRequestId = hist.speakIds[Len(hist.speakIds)] + 1

-----------------------------------------------------------------------------
(* Claims about the overlay controller, under SpecOverlay *)

NodesOfKind(kind) == {n \in dom : n.kind = kind}

\* C1: under any interleaving of highlightElement, clearHighlights and the 300 ms settle
\* timers, the document holds at most one highlight node, at most one arrow node and at
\* most one tooltip node; and once every timer has run after shows that found an
\* element, the nodes in the document are the ones the controller holds.
C1_AtMostOneOfEachKind ==
    /\ \A kind \in {"highlight", "arrow", "tooltip"} : Cardinality(NodesOfKind(kind)) <= 1
    /\ timers = <<>> =>
           {n.id : n \in dom} \subseteq
               {guide.currentHighlight, guide.currentArrow, guide.currentTooltip}

NoOverlayNode == dom = {}

\* C12: from a call of highlightElement that found no element until the next call that
\* finds one, the document holds no highlight, arrow or tooltip node.
C12_FailedShowLeavesNoOverlay ==
    olog.missing => NoOverlayNode

\* the state clearHighlights is claimed to leave
Cleared ==
    /\ NoOverlayNode
    /\ listeners.click = {}
    /\ ~listeners.viewport
    /\ frames = {}
    /\ guide.pendingFrame = 0
    /\ guide.currentHighlight = 0
    /\ guide.currentArrow = 0
    /\ guide.currentTooltip = 0
    /\ guide.currentTargetElement = 0

\* C13: right after a clearHighlights message is handled no overlay node is in the
\* document, no click, scroll or resize listener of the overlay is attached, no frame is
\* pending, and the node and target fields are null.
C13_ClearLeavesNothing ==
    olog.op = "clear" => Cleared

\* C14: a clearHighlights message handled directly after another changes no field of
\* VisualGuide, no overlay node, no listener, no timer and no frame request.
C14_ClearIdempotent ==
    [][(olog.op = "clear" /\ olog'.op = "clear")
       => /\ guide' = guide
          /\ dom' = dom
          /\ listeners' = listeners
          /\ frames' = frames
          /\ timers' = timers]_vars

\* a second clearHighlights in a row, while a timer of an earlier highlightElement is
\* still to run
C14_Witness ==
    /\ olog.op = "clear"
    /\ olog.repeat
    /\ timers # <<>>
    /\ guide.viewportHandler

\* C15: at most one animation frame of the overlay is requested at a time, it is the one
\* pendingFrame holds, and right after clearHighlights none is left to run.
C15_OnePendingFrame ==
    /\ Cardinality(frames) <= 1
    /\ frames = IF guide.pendingFrame = 0 THEN {} ELSE {guide.pendingFrame}
    /\ olog.op \in {"clear", "click"} => frames = {}

\* a scroll or resize event arrived while a frame was requested, and one frame is pending
C15_Witness ==
    /\ olog.op = "viewport"
    /\ olog.collapsed
    /\ Cardinality(frames) = 1
    /\ guide.currentHighlight # 0

-----------------------------------------------------------------------------
(* Claims about a command's failures, under Spec, SpecLive and SpecInterp *)

Ready == ~state.isProcessing /\ elements.statusText = "Ready to guide"

\* C16: a command that was accepted returns the popup to ready whichever of its awaited
\* calls fails, provided each settles: isProcessing becomes false with the status
\* 'Ready to guide'; and a command that arrives while isProcessing is false is accepted.
C16_CommandEventuallyReturns ==
    /\ state.isProcessing ~> Ready
    /\ [][(~state.isProcessing /\ Len(calls') > Len(calls))
          => (calls'[Len(calls')].pc = "tabs" /\ state'.isProcessing)]_vars

\* a second command, accepted after the first returned and spoke, waits for the page
C16_Witness ==
    /\ Len(calls) = 2
    /\ calls[1].pc = "returned"
    /\ calls[2].pc = "extract"
    /\ hist.speakIds # <<>>
    /\ state.isProcessing

\* the text was displayed since the running command began
Displayed(text) == \E k \in 1..Len(hist.shown) : hist.shown[k] = text

\* the getPageContent messages the running command sent
GetSends == Cardinality({k \in 1..Len(hist.sent) : hist.sent[k] = GetPageContentMsg})

\* C17: a command sends getPageContent at most twice; the second time only after the
\* first request threw and the delay that follows it is over; and when the second
\* request throws as well the page content is null: no third request, no model call.
C17_AtMostOneRetry ==
    /\ [](/\ GetSends <= 2
          /\ GetSends = 2 => hist.throws >= 1
          /\ hist.throws = 2 =>
                 /\ hist.modelCalls = 0
                 /\ \A i \in 1..Len(calls) : calls[i].pc \in {"returned", "rejected"}
                 /\ Displayed(MsgErrorPrefix \o MsgNoPage))
    /\ [][(GetSends = 1 /\ GetSends' = 2)
          => \E i \in 1..Len(calls) : calls[i].pc = "retryWait" /\ calls'[i].pc = "retry"]_vars

\* both requests threw and the command has returned
C17_Witness ==
    /\ hist.throws = 2
    /\ GetSends = 2
    /\ calls[1].pc = "returned"
    /\ ~state.isProcessing

\* C18: after a model call that failed (a status that is not 2xx, a body without the
\* reply's text) the command has made one model call, has displayed a message that
\* begins 'Sorry, I encountered an error' and passed it to speak, and has requested no
\* highlightElement.
C18_ModelFailureReported ==
    hist.modelError =>
        /\ hist.modelCalls = 1
        /\ \E message \in ModelErrors :
               /\ Displayed(MsgErrorPrefix \o message)
               /\ hist.spoken = <<MsgErrorPrefix \o message>>
        /\ hist.last.op = "gemini" =>
               StartsWith(elements.responseArea, MsgErrorPrefix)
        /\ "highlightElement" \notin (RequestedActions \cup SentActions)

\* the model call failed with the malformed-body error and the command has returned
C18_Witness ==
    /\ hist.modelError
    /\ Displayed(MsgErrorPrefix \o MsgInvalidModel)
    /\ calls[1].pc = "returned"
    /\ ~state.isProcessing

\* C19: when a guide or navigate command ends after a reply that is no clarification and
\* nothing was matched (no target was resolved, or the content script answered
\* highlightElement with success false), the re-prompt was displayed and passed to speak
\* and clearHighlights was the last message requested; a summarize command never
\* displays the re-prompt.
C19_RepromptWhenUnmatched ==
    (Handled /\ ~ClarifyReply /\ calls[1].pc = "returned") =>
        /\ (/\ hist.type \in {"guide", "navigate"}
            /\ ("highlightElement" \notin RequestedActions \/ hist.refused))
           => /\ \E k \in 1..Len(hist.shown) : hist.shown[k] = MsgReprompt
              /\ \E k \in 1..Len(hist.spoken) : hist.spoken[k] = MsgReprompt
              /\ hist.requested[Len(hist.requested)] = ClearHighlightsMsg
        /\ hist.type = "summarize" =>
               \A k \in 1..Len(hist.shown) : hist.shown[k] # MsgReprompt

\* C20: a command whose tab query finds no tab or a restricted page has, when it ends,
\* started no injection, sent and requested no message and made no model call; and on a
\* restricted page the response area then holds the restricted-page message.
C20_RestrictedPageMessage ==
    (hist.tab \in {"missing", "restricted"} /\ hist.last.op = "tabs") =>
        /\ ~hist.injected
        /\ hist.sent = <<>>
        /\ hist.requested = <<>>
        /\ hist.modelCalls = 0
        /\ hist.throws = 0
        /\ hist.tab = "restricted" => elements.responseArea = NewlinesToBr(MsgRestricted)
-----------------------------------------------------------------------------
(* Claims about the content script's message handler, under SpecMessages *)

MessageOps == {"getPage", "show", "clear", "path", "other"}

\* C21: the handler answers every message exactly once: getPageContent with the page
\* snapshot, highlightElement with {success: b} where b tells whether a target was found,
\* clearHighlights with {success: true}, an action the switch has no case for with
\* {error: 'Unknown action'} and no change of the overlay.
C21_AnsweredExactlyOnce ==
    /\ [](olog.op \in MessageOps =>
            /\ Len(olog.replies) = 1
            /\ olog.op = "getPage" => olog.replies[1] = PageSnapshot(attached)
            /\ olog.op = "show" =>
                   olog.replies[1] = [success |-> guide.currentTargetElement # 0]
            /\ olog.op = "clear" => olog.replies[1] = [success |-> TRUE]
            /\ olog.op = "other" => olog.replies[1] = [error |-> "Unknown action"])
    /\ [][olog'.op = "other" =>
            UNCHANGED <<guide, dom, timers, listeners, made, frames>>]_vars
-----------------------------------------------------------------------------
(* Claims about the page extractor *)

\* C22: the selector generateSelector returns for an element matches exactly one element
\* of the document, the element itself.
C22_SelectorRoundTrip ==
    scan.pc = "selected" => querySelectorAll(doc, scan.selector) = {scan.el}

\* the visible matches of the document, in document order
VisibleMatches == SelectSeq([i \in 1..Len(doc) |-> i], LAMBDA i : doc[i].visible)

\* C23: getInteractiveElements returns the first min(50, V) visible matches in document
\* order, V being the number of visible matches; invisible ones do not count toward 50.
C23_FirstFiftyVisible ==
    scan.pc = "returned" =>
        scan.elements = SubSeq(VisibleMatches, 1,
                               IF Len(VisibleMatches) < InteractiveCap
                               THEN Len(VisibleMatches) ELSE InteractiveCap)
-----------------------------------------------------------------------------
(* Claims about the order of a command's steps, under Spec *)

HighlightRequested ==
    \E k \in 1..Len(hist.requested) : hist.requested[k].action = "highlightElement"

-----------------------------------------------------------------------------
(* Claims about the overlay's end, under SpecDetach and SpecOverlay *)

\* an overlay is displayed for a target that is no longer in the document
DetachedOverlay ==
    /\ guide.currentTargetElement # 0
    /\ guide.currentHighlight # 0
    /\ guide.currentArrow # 0
    /\ guide.currentTargetElement \notin attached

\* C25: when an overlay is displayed and its target is no longer attached, the next
\* reposition pass clears it whole: no overlay node is left, no listener stays attached
\* and currentTargetElement is null.
C25_DetachedTargetClears ==
    [][(DetachedOverlay /\ olog'.op = "frame") =>
           /\ dom' = {}
           /\ listeners' = NoListeners
           /\ guide'.currentTargetElement = 0]_vars

\* the highlight nodes in the document
Highlights == {n \in dom : n.kind = "highlight"}

\* less than 500 ms have passed since the node was created: its timer has ticks left
InGrace(n) ==
    \E k \in 1..Len(timers) :
        timers[k].kind = "arm" /\ timers[k].node = n.id /\ timers[k].left > 0

\* the node's 500 ms timer has run
GraceOver(n) == ~\E k \in 1..Len(timers) : timers[k].kind = "arm" /\ timers[k].node = n.id

\* C26: a click less than 500 ms after an overlay's highlight node was created does not
\* dismiss it, and a click after that delay clears the overlay completely, whatever
\* shows, clears and pending timers came before.
C26_ClickGrace ==
    /\ [][olog'.op = "click" => \A n \in Highlights : InGrace(n) => n \in dom']_vars
    /\ [](\A n \in Highlights : GraceOver(n) => listeners.click # {})
    /\ [][(olog'.op = "click" /\ \E n \in Highlights : GraceOver(n)) =>
              /\ dom' = {}
              /\ guide'.currentTargetElement = 0]_vars

\* the 300 ms timer of a show is due after clearHighlights ran: the target that show set
\* is null again and no later show has set one
AbandonedShowDue ==
    /\ DueTimer # 0
    /\ timers[DueTimer].kind = "settle"
    /\ guide.currentTargetElement = 0

\* C27: when clearHighlights is called during the 300 ms delay of a successful
\* highlightElement call, that show creates no highlight, arrow or tooltip node and
\* attaches no scroll, resize or click listener afterwards.
C27_ClearAbandonsPendingShow ==
    [][(AbandonedShowDue /\ olog'.op = "timer") =>
           /\ dom' = dom
           /\ listeners' = listeners
           /\ ~\E k \in 1..Len(timers') : timers'[k].kind = "arm" /\ timers'[k].node > made]_vars
-----------------------------------------------------------------------------
(* Claims about the arrow's side, under SpecArrow *)

\* C28: getArrowSide returns 'right' exactly when the space right of the target is at
\* least 130, otherwise 'left' exactly when the space left of it is at least 130,
\* otherwise 'top'.
C28_ArrowSide ==
    scan.pc = "side" =>
        LET spaceRight == doc.innerWidth - doc.rect.right
            spaceLeft == doc.rect.left
        IN  /\ scan.side = "right" <=> spaceRight >= 130
            /\ scan.side = "left" <=> (spaceRight < 130 /\ spaceLeft >= 130)
            /\ scan.side = "top" <=> (spaceRight < 130 /\ spaceLeft < 130)

\* the arrow goes left of a target with 129 to its right and 130 to its left
C28_Witness ==
    /\ scan.pc = "side"
    /\ scan.side = "left"
    /\ doc.innerWidth - doc.rect.right = 129
    /\ doc.rect.left = 130
-----------------------------------------------------------------------------
(* Claims about the description scan, under SpecScan *)

\* C29: findElementByDescription examines at most 700 candidates in a call.
C29_AtMost700Examined == scan.examined <= 700
-----------------------------------------------------------------------------
(* Claims about the actionable element, under SpecActionable *)

VisibleActionable(d, i) == d[i].actionable /\ d[i].visible

RECURSIVE NearestVisibleActionableAncestor(_, _)
NearestVisibleActionableAncestor(d, i) ==
    IF d[i].parent = 0 THEN 0
    ELSE IF VisibleActionable(d, d[i].parent) THEN d[i].parent
    ELSE NearestVisibleActionableAncestor(d, d[i].parent)

FirstVisibleActionableDescendant(d, i) ==
    LET under == {j \in 1..Len(d) : IsDescendant(d, j, i) /\ VisibleActionable(d, j)}
    IN  IF under = {} THEN 0 ELSE CHOOSE j \in under : \A k \in under : j <= k

RECURSIVE NearestCueAncestor(_, _, _)
NearestCueAncestor(d, i, levels) ==
    IF levels = 0 \/ d[i].parent = 0 THEN 0
    ELSE IF d[d[i].parent].pointerCue /\ d[d[i].parent].visible THEN d[i].parent
    ELSE NearestCueAncestor(d, d[i].parent, levels - 1)

\* the element the claim names
ClaimedActionable(d, i) ==
    IF NearestVisibleActionableAncestor(d, i) # 0 THEN NearestVisibleActionableAncestor(d, i)
    ELSE IF FirstVisibleActionableDescendant(d, i) # 0
         THEN FirstVisibleActionableDescendant(d, i)
    ELSE NearestCueAncestor(d, i, 4)

\* C30: for a node that is not itself visible and actionable, getActionableElement
\* returns the nearest visible actionable ancestor, else the first visible actionable
\* descendant, else the nearest of the node's first 4 ancestors that is visible and has
\* the pointer cue, else null.
C30_ActionablePriority ==
    (/\ scan.pc = "resolved"
     /\ ~(isInteractiveElement(doc, scan.el) /\ doc[scan.el].visible))
        => scan.target = ClaimedActionable(doc, scan.el)

-----------------------------------------------------------------------------
(* Claims about the displayed message of guide and navigate commands, under SpecFormat *)

\* the reply without its first highlight block
ReplyProse == Trim(RemoveFirstBlock(doc, HighlightOpen, HighlightClose))

\* the sentence-like parts of the reply's prose once the markers at line starts are gone
ClaimedParts ==
    TrimAndFilter(FlatMapSentences(
        SplitLines(Trim(StripNumerals(StripBullets(RemoveCR(ReplyProse), 1), 1)), 1, <<>>)))

\* a part as it is displayed: white space runs as one space, first character upper-cased
Capitalised(part) ==
    LET normalized == Trim(CollapseSpaces(part, 1))
    IN  <<UpperOf(normalized[1])>> \o Tail(normalized)

DisplayedLines == SplitLines(scan.shown, 1, <<>>)

DisplaysFirstTwoParts ==
    /\ Len(DisplayedLines) = (IF Len(ClaimedParts) < 2 THEN Len(ClaimedParts) ELSE 2)
    /\ \A k \in 1..Len(DisplayedLines) : DisplayedLines[k] = Capitalised(ClaimedParts[k])

\* C31: for a guide or navigate command and a non-clarify reply, the displayed message is
\* never empty and has at most two lines; when the reply's prose leaves no sentence-like
\* part once the highlight block and the markers are removed, it is the generic
\* instruction; otherwise its lines are the first two sentence-like parts, each with its
\* first character upper-cased.
C31_DisplaysTwoSteps ==
    scan.pc = "displayed" =>
        /\ scan.shown # <<>>
        /\ Len(DisplayedLines) <= 2
        /\ IF ClaimedParts = <<>>
           THEN scan.shown = MsgFallbackStep
           ELSE DisplaysFirstTwoParts

\* a reply of three sentence-like parts was displayed as its first two, capitalised
C31_Witness ==
    /\ scan.pc = "displayed"
    /\ Len(ClaimedParts) = 3
    /\ scan.shown = <<"A", "\n", "A">>

\* C31 as stated: the generic instruction is displayed only for a reply that is empty
\* after removing the highlight block; every other reply is displayed as its first two
\* sentence-like parts.
C31_AsStated ==
    scan.pc = "displayed" =>
        /\ scan.shown # <<>>
        /\ Len(DisplayedLines) <= 2
        /\ IF ReplyProse = <<>>
           THEN scan.shown = MsgFallbackStep
           ELSE DisplaysFirstTwoParts

-----------------------------------------------------------------------------
(* Claims about the feature flag VISUAL_ARROWS, under SpecArrowsOff *)

\* C32: while FEATURES.VISUAL_ARROWS is false no highlightElement message is sent, whatever
\* the model replies.
C32_NoOverlayWhenOff ==
    ~config.visualArrows => "highlightElement" \notin SentActions

-----------------------------------------------------------------------------
(* Claims about the indexes of the prompt, under SpecPrompt *)

\* the elementIndex of the instruction, as resolveHighlightTarget reads it
AnsweredIndex == ToNumber(rIn.highlightData.elementIndex)

\* the primary path took its selector from a descriptor of the snapshot
ResolvedByIndex ==
    /\ rOut.done
    /\ ~rOut.primary.isNull
    /\ \E k \in 1..Len(rIn.pageData.interactiveElements) :
           rOut.primary.selector = rIn.pageData.interactiveElements[k].selector

\* C33: the primary path resolves an elementIndex only to the descriptor the prompt
\* listed under that index: the index is one of the prompt's indexed list, and the
\* selector is that of snapshot.interactiveElements[index].
C33_IndexWasPresented ==
    ResolvedByIndex =>
        /\ IsInteger(AnsweredIndex)
        /\ \E k \in 1..Len(rOut.prompt) :
               /\ rOut.prompt[k].index = AnsweredIndex.n
               /\ rOut.primary.selector = rIn.pageData.interactiveElements[k].selector

-----------------------------------------------------------------------------
(* Claims about the highlight request of a command, under SpecInterp *)

Count(seq, action) == Cardinality({k \in 1..Len(seq) : seq[k].action = action})

\* the command's snapshot holds an interactive element with a selector
SelectableSnapshot ==
    \E k \in 1..Len(hist.pageData.interactiveElements) :
        hist.pageData.interactiveElements[k].selector # <<>>

\* C34: for every task kind, a non-clarify reply handled against a snapshot with an
\* interactive element that has a selector makes the command request highlightElement
\* exactly once, with or without a highlight block in the reply; when the command has
\* ended the message was sent once if the tab query of that request found a tab, and not
\* at all if it found none.
C34_OneHighlightRequest ==
    (Handled /\ ~ClarifyReply /\ SelectableSnapshot) =>
        /\ Count(hist.requested, "highlightElement") = 1
        /\ Count(hist.sent, "highlightElement") <= 1
        /\ calls[1].pc = "returned" =>
               Count(hist.sent, "highlightElement") = (IF hist.last.op = "sendMsg" THEN 1 ELSE 0)

\* a summarize command whose reply has no highlight block sent highlightElement and ended
C34_Witness ==
    /\ Handled /\ ~ClarifyReply /\ ~HighlightReply /\ SelectableSnapshot
    /\ hist.type = "summarize"
    /\ calls[1].pc = "returned"
    /\ Count(hist.sent, "highlightElement") = 1

\* C34 as stated: such a command has sent exactly one highlightElement message when it ends.
C34_AsStated ==
    (Handled /\ ~ClarifyReply /\ SelectableSnapshot /\ calls[1].pc = "returned") =>
        Count(hist.sent, "highlightElement") = 1

-----------------------------------------------------------------------------
(* Claims about the description fallback, under SpecSearch *)

\* the candidate's text and the description overlap: one contains the other, or a token
\* of one occurs in the other
TextOverlap(i, description) ==
    LET text == ToLowerCase(Trim(PageElements[i].text))
        lowerDesc == ToLowerCase(description)
    IN  \/ Includes(text, lowerDesc)
        \/ Includes(lowerDesc, text)
        \/ \E k \in 1..Len(Words(lowerDesc)) : Includes(text, Words(lowerDesc)[k])
        \/ \E k \in 1..Len(Words(text)) : Includes(lowerDesc, Words(text)[k])

\* C39: findElementByDescription returns only a candidate whose text overlaps the
\* description.
C39_MatchOverlaps ==
    (scan.pc = "searched" /\ scan.match # 0) => TextOverlap(scan.match, scan.description)

-----------------------------------------------------------------------------
(* Claims about the arrow's graphic, under SpecOverlay *)

\* C40: the arrow node the overlay holds, once displayed and positioned, shows the graphic
\* of the side recorded in currentArrowSide.
C40_GraphicMatchesSide ==
    \A n \in dom :
        (n.kind = "arrow" /\ n.id = guide.currentArrow /\ n.placed)
            => n.side = guide.currentArrowSide

-----------------------------------------------------------------------------
(* Claims about the voice transcript debounce, under SpecVoice *)

Last(seq) == seq[Len(seq)]

\* at most one debounce timer is pending, and it is the one the state holds
OneDebounceTimer ==
    /\ Cardinality(voice.timers) <= 1
    /\ \A t \in voice.timers : t.id = voice.voiceCommandDebounceTimer

\* every call of processVoiceCommand was for one burst, DebounceDelay after its last
\* transcript and with that transcript; no burst had two calls, and only the last burst
\* can be without one
OneCallPerBurst ==
    /\ Len(voice.calls) <= Len(voice.bursts)
    /\ Len(voice.calls) >= Len(voice.bursts) - 1
    /\ \A k \in 1..Len(voice.calls) :
           /\ voice.calls[k].burst = k
           /\ voice.calls[k].transcript = Last(voice.bursts[k])
           /\ voice.calls[k].since = DebounceDelay

\* once the last burst had its call, nothing is pending
IdleAfterCall ==
    Len(voice.calls) = Len(voice.bursts) =>
        /\ voice.pendingVoiceTranscript = <<>>
        /\ voice.voiceCommandDebounceTimer = 0

\* C35: at most one debounce timer is pending at any time; for every burst of final
\* transcripts processVoiceCommand is called exactly once, 1500 ms after the last of them
\* and with the last transcript, and afterwards pendingVoiceTranscript is empty and
\* voiceCommandDebounceTimer is null.
C35_Debounced ==
    /\ [](OneDebounceTimer /\ OneCallPerBurst /\ IdleAfterCall)
    /\ \A n \in 1..MaxTranscripts :
           (Len(voice.bursts) = n) ~> (Len(voice.calls) >= n)

\* a burst of three transcripts, the last unlike the first, had its one call
C35_Witness ==
    /\ Len(voice.bursts) = 1
    /\ Len(voice.bursts[1]) = 3
    /\ voice.bursts[1][1] # voice.bursts[1][3]
    /\ Len(voice.calls) = 1
    /\ voice.calls[1].transcript = voice.bursts[1][3]

-----------------------------------------------------------------------------
(* Claims about the service worker's settings, under SpecBackground *)

\* the value the last message that set key k gave it, the installed value when none did
RECURSIVE LastValue(_, _, _)
LastValue(received, k, installed) ==
    IF received = <<>> THEN installed
    ELSE IF Last(received)[k] # "absent" THEN Last(received)[k]
    ELSE LastValue(SubSeq(received, 1, Len(received) - 1), k, installed)

\* C38: once every updateSettings message was answered, the stored settings hold for
\* every key the value of the last message that set it, and the previous value of a key
\* no message set.
C38_NoLostUpdate ==
    (background.queue = <<>> /\ background.responses = Len(background.received)) =>
        \A k \in SettingKeys :
            background.settings[k] = LastValue(background.received, k, FreshBackground.settings[k])

-----------------------------------------------------------------------------
(* Claims about voice output and the microphone, under SpecSpeech *)

\* a call of speak: the step that adds to the texts passed to speak
SpeakStep == Len(hist'.spoken) > Len(hist.spoken)

\* C36: while state.voiceOutputEnabled is false a call of speak starts no speech and
\* changes no speech state; and a speech request that was in flight when voice output was
\* switched off does not reach the speaking state while it stays off.
C36_SilentWhenOff ==
    /\ [][(SpeakStep /\ ~state.voiceOutputEnabled) => (state' = state /\ speech' = speech)]_vars
    /\ [](state.isSpeaking => state.currentSpeakRequestId \notin voice.silenced)

\* C37: a speech request issued before startListening is not speaking while the popup
\* listens.
C37_ListeningSilencesSpeech ==
    (voice.isListening /\ state.isSpeaking) => state.currentSpeakRequestId \notin voice.earlier

====
